---- MODULE Spec2Model ----
(***************************************************************************)
(* A model of the AI text detector: the detector object (rate limiter,     *)
(* input sanitizer, ensemble), its batch and directory drivers, and the    *)
(* configuration record with its settings dialog.                          *)
(*                                                                         *)
(* A text is a sequence of one-character strings.  Confidences and scores  *)
(* are exact rationals kept as integer numerators over a fixed             *)
(* denominator.                                                            *)
(***************************************************************************)
EXTENDS Integers, Sequences, FiniteSets, TLC

VARIABLES
    sText,      \* the argument of the _sanitize_input call under study
    sOut,       \* its outcome: not yet called, a returned string, or a raise
    now,                 \* time.time(), in seconds
    max_text_length,     \* AIDetector.max_text_length
    max_file_size,       \* AIDetector.max_file_size
    _last_request_time,  \* AIDetector._last_request_time
    _request_count,      \* AIDetector._request_count
    _rate_limit,         \* AIDetector._rate_limit
    arg,        \* the argument of the latest detect call
    answered,   \* what the models and the feature analysis did in that call
    ret,        \* the outcome of the latest detect call
    winStart,   \* observer: when the current 60-second window began
    winCalls,   \* observer: detect calls made in the current window
    probeStart, \* observer: the start of one arbitrary 60-second interval
    probePassed, \* observer: calls in that interval that passed the rate check
    bTexts,     \* batch_detect: the list of texts it was called with
    bResults,   \* batch_detect: the results list
    bPhase,     \* batch_detect: idle, running, returned, or raised
    dMode,      \* directory run: "cli" (process_directory) or "gui" (_analyze_directory)
    dDir,       \* the directory on disk that directory runs are started on
    dFiles,     \* directory run: text_files
    dResults,   \* directory run: results
    dPhase,     \* directory run: idle, running, done, or failed
    file,       \* config.json on disk
    heap,       \* the dict objects of Config
    config,     \* Config.config: the dict object it refers to, 0 before __init__
    gui,        \* the main window: none, running, or destroyed
    dialog,     \* the settings dialog: open or not, and its entries
    style,      \* the palette and font applied to the main window
    validAtStart, \* observer: validate_config held when Config was constructed
    edits,      \* observer: entries typed into so far
    saves,      \* observer: Save and Reset to Defaults presses so far
    setCall,    \* observer: the last Config.set call, the heap before it, and how many there were
    args,       \* the command line main was started with
    cli,        \* main: where it is, the handler it called and on what, its exit status
    fFile,      \* the file at the path given to process_file or chosen in the file tab
    fOut,       \* what analysing that file came to
    workers,    \* the threads _analyze_text started, in the order of their start
    text_result, \* the result label of the text tab
    status_var, \* the status bar
    wrote       \* observer: the workers in the order they wrote the result label

sanitizeVars == <<sText, sOut>>

detectorVars == <<max_text_length, max_file_size, _last_request_time, _request_count,
                  _rate_limit>>

callVars == <<arg, answered, ret>>

observerVars == <<winStart, winCalls, probeStart, probePassed>>

batchVars == <<bTexts, bResults, bPhase>>

dirVars == <<dMode, dDir, dFiles, dResults, dPhase>>

settingsVars == <<file, heap, config, gui, dialog, style, validAtStart, edits, saves,
                  setCall>>

cliVars == <<args, cli>>

fileVars == <<fFile, fOut>>

guiVars == <<workers, text_result, status_var, wrote>>

\* the command line, the single-file analysis and the text tab
frontVars == <<cliVars, fileVars, guiVars>>

vars == <<sText, sOut, now, max_text_length, max_file_size, _last_request_time,
          _request_count, _rate_limit, arg, answered, ret,
          winStart, winCalls, probeStart, probePassed,
          bTexts, bResults, bPhase,
          dMode, dDir, dFiles, dResults, dPhase,
          file, heap, config, gui, dialog, style, validAtStart, edits, saves, setCall,
          args, cli, fFile, fOut, workers, text_result, status_var, wrote>>

----------------------------------------------------------------------------
(* Characters and strings *)

LowerLetters == <<"a","b","c","d","e","f","g","h","i","j","k","l","m",
                  "n","o","p","q","r","s","t","u","v","w","x","y","z">>

UpperLetters == <<"A","B","C","D","E","F","G","H","I","J","K","L","M",
                  "N","O","P","Q","R","S","T","U","V","W","X","Y","Z">>

IsLower(c) == \E i \in 1..26 : LowerLetters[i] = c

IsUpper(c) == \E i \in 1..26 : UpperLetters[i] = c

\* ord(char) for the characters the model's texts are written in
Ord(c) ==
    IF IsLower(c) THEN 96 + (CHOOSE i \in 1..26 : LowerLetters[i] = c)
    ELSE IF IsUpper(c) THEN 64 + (CHOOSE i \in 1..26 : UpperLetters[i] = c)
    ELSE CASE c = "\t" -> 9
           [] c = "\n" -> 10
           [] c = " "  -> 32
           [] c = "\"" -> 34
           [] c = "#"  -> 35
           [] c = "&"  -> 38
           [] c = "'"  -> 39
           [] c = "("  -> 40
           [] c = "/"  -> 47
           [] c = "2"  -> 50
           [] c = "7"  -> 55
           [] c = ":"  -> 58
           [] c = ";"  -> 59
           [] c = "<"  -> 60
           [] c = ">"  -> 62
           [] c = "_"  -> 95

\* the case folding re.IGNORECASE compares under
Fold(c) ==
    IF IsUpper(c) THEN LowerLetters[CHOOSE i \in 1..26 : UpperLetters[i] = c]
    ELSE c

\* the class \s of a Python str pattern, and the whitespace str.strip() removes
IsSpace(c) == c \in {" ", "\t", "\n"}

RECURSIVE Concat(_)
\* the concatenation of a sequence of strings
Concat(ss) == IF ss = <<>> THEN <<>> ELSE Head(ss) \o Concat(Tail(ss))

RECURSIVE Join(_, _)
\* sep.join(ws)
Join(ws, sep) ==
    IF ws = <<>> THEN <<>>
    ELSE IF Len(ws) = 1 THEN ws[1]
    ELSE ws[1] \o sep \o Join(Tail(ws), sep)

----------------------------------------------------------------------------
\* Regular expressions: the fragment of Python's re the denylist uses.
\* A pattern is a sequence of elements: a literal character, whitespace
\* repeated zero or more times, whitespace repeated one or more times, or a
\* lazy run of any characters but newline (for the existence of a match,
\* lazy and greedy runs agree).

Lit(s) == [i \in 1..Len(s) |-> [t |-> "lit", c |-> s[i]]]

WsStar == <<[t |-> "ws*", c |-> ""]>>

WsPlus == <<[t |-> "ws+", c |-> ""]>>

AnyLazy == <<[t |-> "any", c |-> ""]>>

RECURSIVE MatchFrom(_, _, _, _, _)
\* does pat[k..] match text at position i (re.match semantics: anchored at
\* i, free at the end); ic is re.IGNORECASE
MatchFrom(pat, k, text, i, ic) ==
    IF k > Len(pat) THEN TRUE
    ELSE LET e == pat[k] IN
      CASE e.t = "lit" ->
             /\ i <= Len(text)
             /\ IF ic THEN Fold(text[i]) = Fold(e.c) ELSE text[i] = e.c
             /\ MatchFrom(pat, k + 1, text, i + 1, ic)
        [] e.t = "ws*" ->
             \/ MatchFrom(pat, k + 1, text, i, ic)
             \/ /\ i <= Len(text)
                /\ IsSpace(text[i])
                /\ MatchFrom(pat, k, text, i + 1, ic)
        [] e.t = "ws+" ->
             /\ i <= Len(text)
             /\ IsSpace(text[i])
             /\ \/ MatchFrom(pat, k + 1, text, i + 1, ic)
                \/ MatchFrom(pat, k, text, i + 1, ic)
        [] e.t = "any" ->
             \/ MatchFrom(pat, k + 1, text, i, ic)
             \/ /\ i <= Len(text)
                /\ text[i] # "\n"
                /\ MatchFrom(pat, k, text, i + 1, ic)

\* re.search(pattern, text, flags) is not None
ReSearch(pat, text, ic) ==
    \E i \in 1..(Len(text) + 1) : MatchFrom(pat, 1, text, i, ic)

W_script_open == <<"<","s","c","r","i","p","t">>

W_gt == <<">">>

W_script_close == <<"<","/","s","c","r","i","p","t",">">>

W_javascript == <<"j","a","v","a","s","c","r","i","p","t",":">>

W_data_html == <<"d","a","t","a",":","t","e","x","t","/","h","t","m","l">>

W_eval == <<"e","v","a","l">>

W_exec == <<"e","x","e","c">>

W_paren == <<"(">>

W_from == <<"f","r","o","m">>

W_os == <<"o","s">>

W_import == <<"i","m","p","o","r","t">>

W_dunder_import == <<"_","_","i","m","p","o","r","t","_","_">>

\* the denylist of _sanitize_input, in the order it is tried
suspicious_patterns == <<
    Lit(W_script_open) \o AnyLazy \o Lit(W_gt) \o AnyLazy \o Lit(W_script_close),
    Lit(W_javascript),
    Lit(W_data_html),
    Lit(W_eval) \o WsStar \o Lit(W_paren),
    Lit(W_exec) \o WsStar \o Lit(W_paren),
    Lit(W_from) \o WsPlus \o Lit(W_os) \o WsPlus \o Lit(W_import),
    Lit(W_import) \o WsPlus \o Lit(W_os),
    Lit(W_dunder_import) \o WsStar \o Lit(W_paren) >>

----------------------------------------------------------------------------
(* html.escape *)

RECURSIVE Replace(_, _, _)
\* s.replace(ch, rep) for a one-character ch
Replace(s, ch, rep) ==
    IF s = <<>> THEN <<>>
    ELSE (IF Head(s) = ch THEN rep ELSE <<Head(s)>>) \o Replace(Tail(s), ch, rep)

E_amp == <<"&","a","m","p",";">>

E_lt == <<"&","l","t",";">>

E_gt == <<"&","g","t",";">>

E_quot == <<"&","q","u","o","t",";">>

E_apos == <<"&","#","x","2","7",";">>

\* html.escape(s, quote=True): & first, then < and >, then the two quotes
HtmlEscape(s) ==
    LET s1 == Replace(s, "&", E_amp)
        s2 == Replace(s1, "<", E_lt)
        s3 == Replace(s2, ">", E_gt)
        s4 == Replace(s3, "\"", E_quot)
    IN  Replace(s4, "'", E_apos)

----------------------------------------------------------------------------
(* AIDetector._sanitize_input *)

\* ''.join(char for char in text if ord(char) >= 32)
RemoveControl(text) == SelectSeq(text, LAMBDA c : Ord(c) >= 32)

Raise(kind, msg) == [kind |-> kind, msg |-> msg, val |-> <<>>]

Return(val) == [kind |-> "return", msg |-> "", val |-> val]

M_suspicious == "Suspicious pattern detected in input"

\* _sanitize_input with the re.IGNORECASE flag dropped
sanitize_case_sensitive(text) ==
    LET clean == RemoveControl(text) IN
    IF \E n \in 1..Len(suspicious_patterns) :
           ReSearch(suspicious_patterns[n], clean, FALSE)
    THEN Raise("SecurityError", M_suspicious)
    ELSE Return(HtmlEscape(clean))

_sanitize_input(text) ==
    LET clean == RemoveControl(text) IN
    IF \E n \in 1..Len(suspicious_patterns) :
           ReSearch(suspicious_patterns[n], clean, TRUE)
    THEN Raise("SecurityError", M_suspicious)
    ELSE Return(HtmlEscape(clean))

----------------------------------------------------------------------------
(* The texts the model draws its inputs from: up to MaxWords words, joined *)
(* by one separator.                                                       *)

MaxWords == 3

W_script_tag == W_script_open \o W_gt

W_hi == <<"H","i">>

W_special == <<"&","\"","'">>

W_EXEC == <<"E","X","E","C">>

Words == { W_script_tag, W_script_close, W_javascript, W_data_html, W_eval,
           W_EXEC, W_paren, W_from, W_os, W_import, W_dunder_import,
           W_hi, W_special }

Separators == { <<>>, <<" ">>, <<"\t">> }

WordLists == UNION { [1..n -> Words] : n \in 0..MaxWords }

Texts == { Join(ws, sep) : ws \in WordLists, sep \in Separators }

----------------------------------------------------------------------------
(* Constants and inputs of detect *)

\* the window of _check_rate_limit, in seconds
Window == 60

\* the value __init__ gives _rate_limit
DefaultRateLimit == 100

\* the thresholds of the two feature adjustments: token_probability in
\* hundredths, readability in points of the Flesch scale
TokenProbThreshold == 50

ReadabilityThreshold == 80

\* a model score is k / ScoreDen for k in 0..ScoreDen
ScoreDen == 4

\* a confidence is n / ConfDen; the denominator makes the mean of two scores
\* and the factors 1.2 and 0.8 exact
ConfDen == 50 * ScoreDen

\* the clock reads StartTime when the detector is built (any value above
\* Window: time.time() counts seconds since 1970) and is looked at every
\* TickStep seconds, for MaxElapsed seconds
StartTime == 100

TickStep == 30

MaxElapsed == 180

\* how far past the limit the model lets the request counter run
MaxOver == 2

\* the max_text_length the detector is constructed with
ConfiguredMaxTextLength == 12

\* max_file_size, in bytes, scaled like max_text_length: larger than it, as
\* 1024 * 1024 is larger than 10000
ConfiguredMaxFileSize == 16

Str(s) == [isStr |-> TRUE, s |-> s]

NotAString == [isStr |-> FALSE, s |-> <<>>]

W_blank == <<" ", "\t", " ", " ", "\n">>

Answer(label, score) == [raises |-> "", label |-> label, score |-> score]

Failure(class) == [raises |-> class, label |-> "", score |-> 0]

Features(tp, rd) == [raises |-> "", tp |-> tp, rd |-> rd]

FeatureFailure(class) == [raises |-> class, tp |-> 0, rd |-> 0]

Unanswered == [answers |-> <<>>, feat |-> FeatureFailure("")]

\* result["label"] of a text-classification pipeline
ModelLabels == {"LABEL_0", "LABEL_1"}

ExceptionClasses == {"PipelineException", "Exception"}

\* what one model may do with a text
ModelBehaviours ==
    { Answer(l, k) : l \in ModelLabels, k \in 0..ScoreDen }
        \cup { Failure(c) : c \in ExceptionClasses }

\* what _analyze_text_features may do: token_probability on either side of
\* 0.5 (in hundredths), readability on either side of 80
FeatureBehaviours ==
    { Features(tp, rd) : tp \in {0, TokenProbThreshold, TokenProbThreshold + 1, 100},
                         rd \in {-10, ReadabilityThreshold, ReadabilityThreshold + 1, 120} }
        \cup { FeatureFailure("Exception") }

\* the arguments the rate limiter is exercised with: not a string, empty,
\* blank and over-long, plain, over-long, denylisted, and one whose
\* denylisted shape is broken up by a tab
RateArgs ==
    { NotAString,
      Str(<<>>),
      Str(Join(<<W_blank, W_blank, W_blank>>, <<" ">>)),
      Str(W_hi),
      Str(W_data_html),
      Str(W_eval \o W_paren),
      Str(W_import \o <<"\t">> \o W_os) }

RateAnswers ==
    { <<Answer("LABEL_1", ScoreDen), Answer("LABEL_0", 1)>>,
      <<Answer("LABEL_1", 1), Failure("PipelineException")>> }

RateFeatures == { Features(TokenProbThreshold + 1, ReadabilityThreshold) }

EnsembleArgs == { Str(W_hi), Str(W_eval \o W_paren), NotAString }

\* every string the model hands to detect
DetectTexts == { x.s : x \in RateArgs \cup EnsembleArgs } \cup { <<>>, W_hi, W_eval \o W_paren }

\* _sanitize_input on those strings, evaluated once
SanitizeTable == [t \in DetectTexts |-> _sanitize_input(t)]

\* self._sanitize_input(text)
SanitizeOf(text) ==
    IF text \in DetectTexts THEN SanitizeTable[text] ELSE _sanitize_input(text)

----------------------------------------------------------------------------
(* AIDetector: construction, the rate limiter and detect *)

M_rate == "Rate limit exceeded"

M_not_str == "Input must be a string"

M_empty == "Input text cannot be empty"

M_too_long == "Text length exceeds maximum allowed length"

M_failed == "Failed to process text: "

M_unexpected == "An unexpected error occurred: "

\* what detect leaves behind: how it ended, and which of the models and of
\* the feature analysis it invoked on the way
Outcome(kind, msg, label, conf, models, features) ==
    [kind |-> kind, msg |-> msg, label |-> label, conf |-> conf,
     models |-> models, features |-> features]

NoCall == Outcome("none", <<>>, "", 0, 0, FALSE)

\* _check_rate_limit rejecting from the limit-th call on (>= for >)
check_rate_limit_off_by_one(last, count, limit, t) ==
    LET reset == t - last > Window
        c0 == IF reset THEN 0 ELSE count
        l1 == IF reset THEN t ELSE last
        c1 == c0 + 1
    IN  [last |-> l1, count |-> c1, exceeded |-> c1 >= limit]

\* _check_rate_limit comparing the counter before incrementing it
check_rate_limit_check_first(last, count, limit, t) ==
    LET reset == t - last > Window
        c0 == IF reset THEN 0 ELSE count
        l1 == IF reset THEN t ELSE last
        c1 == c0 + 1
    IN  [last |-> l1, count |-> c1, exceeded |-> c0 > limit]

\* _check_rate_limit leaving a rejected call out of the counter
check_rate_limit_skip_rejected(last, count, limit, t) ==
    LET reset == t - last > Window
        c0 == IF reset THEN 0 ELSE count
        l1 == IF reset THEN t ELSE last
    IN  [last |-> l1, count |-> IF c0 + 1 > limit THEN c0 ELSE c0 + 1,
         exceeded |-> c0 + 1 > limit]

\* AIDetector._check_rate_limit at time t: the new window start, the new
\* counter, and whether SecurityError("Rate limit exceeded") is raised
_check_rate_limit(last, count, limit, t) ==
    LET reset == t - last > Window
        c0 == IF reset THEN 0 ELSE count
        l1 == IF reset THEN t ELSE last
        c1 == c0 + 1
    IN  [last |-> l1, count |-> c1, exceeded |-> c1 > limit]

\* text.strip()
RECURSIVE LStrip(_)
LStrip(s) == IF s # <<>> /\ IsSpace(Head(s)) THEN LStrip(Tail(s)) ELSE s

RECURSIVE RStrip(_)
RStrip(s) ==
    IF s # <<>> /\ IsSpace(s[Len(s)]) THEN RStrip(SubSeq(s, 1, Len(s) - 1)) ELSE s

Strip(s) == RStrip(LStrip(s))

RECURSIVE SumScores(_)
SumScores(as) == IF as = <<>> THEN 0 ELSE Head(as).score + SumScores(Tail(as))

\* np.mean(confidences), as a numerator over ConfDen
MeanConfidence(as) == (SumScores(as) * ConfDen) \div (Len(as) * ScoreDen)

\* predictions.count(l)
CountLabel(as, l) ==
    Cardinality({i \in 1..Len(as) :
        (IF as[i].label = "LABEL_1" THEN "AI" ELSE "Human") = l})

Min(a, b) == IF a < b THEN a ELSE b

Max(a, b) == IF a > b THEN a ELSE b

\* the ensemble without the final min(max(., 0), 1)
EnsembleUnclamped(as, feat) ==
    LET c0 == MeanConfidence(as)
        c1 == IF feat.tp > TokenProbThreshold THEN (c0 * 12) \div 10 ELSE c0
        c2 == IF feat.rd > ReadabilityThreshold THEN (c1 * 8) \div 10 ELSE c1
        final_label == IF CountLabel(as, "AI") > CountLabel(as, "Human")
                       THEN "AI" ELSE "Human"
    IN  Outcome("return", <<>>, final_label, c2, Len(as), TRUE)

\* the ensemble with the readability adjustment as an elif of the token
\* probability adjustment
EnsembleElif(as, feat) ==
    LET c0 == MeanConfidence(as)
        c2 == IF feat.tp > TokenProbThreshold THEN (c0 * 12) \div 10
              ELSE IF feat.rd > ReadabilityThreshold THEN (c0 * 8) \div 10
              ELSE c0
        final_label == IF CountLabel(as, "AI") > CountLabel(as, "Human")
                       THEN "AI" ELSE "Human"
        final_confidence == Min(Max(c2, 0), ConfDen)
    IN  Outcome("return", <<>>, final_label, final_confidence, Len(as), TRUE)

\* the ensemble giving "AI" on a tie (>= for >)
EnsembleTieIsAI(as, feat) ==
    LET c0 == MeanConfidence(as)
        c1 == IF feat.tp > TokenProbThreshold THEN (c0 * 12) \div 10 ELSE c0
        c2 == IF feat.rd > ReadabilityThreshold THEN (c1 * 8) \div 10 ELSE c1
        final_label == IF CountLabel(as, "AI") >= CountLabel(as, "Human")
                       THEN "AI" ELSE "Human"
        final_confidence == Min(Max(c2, 0), ConfDen)
    IN  Outcome("return", <<>>, final_label, final_confidence, Len(as), TRUE)

\* lines 256-279 of detect: the ensemble of the answers and the features
Ensemble(as, feat) ==
    LET c0 == MeanConfidence(as)
        c1 == IF feat.tp > TokenProbThreshold THEN (c0 * 12) \div 10 ELSE c0
        c2 == IF feat.rd > ReadabilityThreshold THEN (c1 * 8) \div 10 ELSE c1
        final_label == IF CountLabel(as, "AI") > CountLabel(as, "Human")
                       THEN "AI" ELSE "Human"
        final_confidence == Min(Max(c2, 0), ConfDen)
    IN  Outcome("return", <<>>, final_label, final_confidence, Len(as), TRUE)

\* the body of detect's try block after the rate limit check; an exception
\* is an outcome whose kind is the exception's class.
\* x is the argument: [isStr, s]; answers are what the two models do on the
\* sanitized text, feat what _analyze_text_features does
DetectBody(maxlen, x, answers, feat) ==
    IF ~x.isStr THEN Outcome("ValueError", <<M_not_str>>, "", 0, 0, FALSE)
    ELSE IF Strip(x.s) = <<>> THEN Outcome("ValueError", <<M_empty>>, "", 0, 0, FALSE)
    ELSE IF Len(x.s) > maxlen THEN Outcome("SecurityError", <<M_too_long>>, "", 0, 0, FALSE)
    ELSE LET clean == SanitizeOf(x.s) IN
      IF clean.kind # "return" THEN Outcome(clean.kind, <<clean.msg>>, "", 0, 0, FALSE)
      ELSE LET failing == {i \in 1..Len(answers) : answers[i].raises # ""} IN
        IF failing # {}
        THEN LET i == CHOOSE i \in failing : \A j \in failing : i <= j
             IN  Outcome(answers[i].raises, <<"model failure">>, "", 0, i, FALSE)
        ELSE IF feat.raises # ""
        THEN Outcome(feat.raises, <<"feature failure">>, "", 0, Len(answers), TRUE)
        ELSE Ensemble(answers, feat)

\* the except clauses without the leading "except SecurityError: raise"
HandlersWithoutSecurityClause(o) ==
    CASE o.kind = "return" -> o
      [] o.kind = "PipelineException" ->
           [o EXCEPT !.kind = "RuntimeError", !.msg = <<M_failed>> \o o.msg]
      [] OTHER ->
           [o EXCEPT !.kind = "RuntimeError", !.msg = <<M_unexpected>> \o o.msg]

\* the except clauses of detect (lines 281-289)
DetectHandlers(o) ==
    CASE o.kind = "return" -> o
      [] o.kind = "SecurityError" -> o
      [] o.kind = "PipelineException" ->
           [o EXCEPT !.kind = "RuntimeError", !.msg = <<M_failed>> \o o.msg]
      [] OTHER ->
           [o EXCEPT !.kind = "RuntimeError", !.msg = <<M_unexpected>> \o o.msg]

\* AIDetector.detect at time t on a detector whose fields are last, count,
\* limit, maxlen: the fields afterwards and the outcome
detect(last, count, limit, maxlen, t, x, answers, feat) ==
    LET rl == _check_rate_limit(last, count, limit, t)
        body == IF rl.exceeded
                THEN Outcome("SecurityError", <<M_rate>>, "", 0, 0, FALSE)
                ELSE DetectBody(maxlen, x, answers, feat)
    IN  [last |-> rl.last, count |-> rl.count, out |-> DetectHandlers(body)]

----------------------------------------------------------------------------
(* Configuration values: the state of Config, config.json and the settings
   dialog *)

\* A Python or JSON value that is no dict: its type k, its number n (a float
\* is held in hundredths, a bool as 0 or 1, a list by its length) and its
\* characters s.
IntV(n) == [k |-> "int", n |-> n, s |-> <<>>]

FloatV(hundredths) == [k |-> "float", n |-> hundredths, s |-> <<>>]

BoolV(b) == [k |-> "bool", n |-> IF b THEN 1 ELSE 0, s |-> <<>>]

StrV(s) == [k |-> "str", n |-> 0, s |-> s]

\* a list of strings, held by its length and the characters of its first item
ListV(len, first) == [k |-> "list", n |-> len, s |-> first]

NoneV == [k |-> "none", n |-> 0, s |-> <<>>]

\* a reference to the dict object at heap[id]
Ref(id) == [k |-> "ref", n |-> id, s |-> <<>>]

\* a JSON object, as written in a file or in source text
Dict(d) == [k |-> "dict", n |-> 0, s |-> <<>>, d |-> d]

EmptyDict == [key \in {} |-> NoneV]

\* config.json: missing, unreadable as JSON, or holding a JSON value
FileAbsent == [state |-> "absent", tree |-> NoneV]

FileGarbage == [state |-> "garbage", tree |-> NoneV]

\* config.json exists and open raises (no permission, a directory)
FileUnreadable == [state |-> "unreadable", tree |-> NoneV]

FileJson(tree) == [state |-> "json", tree |-> tree]

\* the entry widgets of SettingsDialog
Fields == {"max_text_length", "max_file_size", "rate_limit", "log_retention",
           "gpt2_model", "roberta_model", "max_length", "theme", "font_size",
           "confidence_threshold", "min_text_length", "batch_size"}

NoEntries == [f \in Fields |-> <<>>]

ClosedDialog == [open |-> FALSE, entries |-> NoEntries]

\* the palette and font of the main window before _update_ui_settings ran
NoStyle == [palette |-> "default", font |-> NoneV]

\* no Config constructed, no window
\* Config.set has not been called
NoSet == [key |-> <<>>, value |-> NoneV, before |-> <<>>, raised |-> "none", n |-> 0]

IdleSettings ==
    /\ file = FileAbsent
    /\ heap = <<>>
    /\ config = 0
    /\ gui = "none"
    /\ dialog = ClosedDialog
    /\ style = NoStyle
    /\ validAtStart = FALSE
    /\ setCall = NoSet
    /\ edits = 0
    /\ saves = 0

----------------------------------------------------------------------------
(* The command line and the single file *)

\* an option of the command line: given with a value, or left out (None)
Given(v) == [given |-> TRUE, v |-> v]

NotGiven == [given |-> FALSE, v |-> <<>>]

NoArgs == [text |-> NotGiven, file |-> NotGiven, dir |-> NotGiven, batch |-> NotGiven,
           interactive |-> FALSE, format |-> "text"]

\* main has not started
NotStarted == [phase |-> "start", ran |-> "none", arg |-> <<>>, format |-> "text", status |-> 0]

\* no file at the path: open raises FileNotFoundError
MissingFile(name) ==
    [name |-> name, exists |-> FALSE, body |-> [raises |-> "FileNotFoundError", text |-> <<>>]]

\* the file has not been analysed
NotAnalysed == [phase |-> "idle", detected |-> FALSE, out |-> NoCall]

\* what a label or the status bar shows, and the worker that wrote it (0 for
\* the handler of the button and for the window's construction)
Shown(by, text, out) == [by |-> by, text |-> text, out |-> out]

\* the text tab as _create_text_tab builds it, no analysis started
IdleGui ==
    /\ workers = <<>>
    /\ text_result = Shown(0, "", NoCall)
    /\ status_var = Shown(0, "Ready", NoCall)
    /\ wrote = <<>>

IdleFront ==
    /\ args = NoArgs
    /\ cli = NotStarted
    /\ fFile = MissingFile(<<>>)
    /\ fOut = NotAnalysed
    /\ IdleGui

----------------------------------------------------------------------------
(* Initial states *)

\* AIDetector.__init__
InitDetector ==
    /\ max_text_length = ConfiguredMaxTextLength
    /\ max_file_size = ConfiguredMaxFileSize
    /\ _last_request_time = 0
    /\ _request_count = 0
    /\ _rate_limit = DefaultRateLimit

InitCall ==
    /\ arg = NotAString
    /\ answered = Unanswered
    /\ ret = NoCall

NotCalled == [kind |-> "none", msg |-> "", val |-> <<>>]

IdleSanitize ==
    /\ sText = <<>>
    /\ sOut = NotCalled

IdleBatch ==
    /\ bTexts = <<>>
    /\ bResults = <<>>
    /\ bPhase = "idle"

NoDirectory == [isDir |-> FALSE, entries |-> <<>>]

IdleDir ==
    /\ dMode = "cli"
    /\ dDir = NoDirectory
    /\ dFiles = <<>>
    /\ dResults = <<>>
    /\ dPhase = "idle"

InitObservers ==
    /\ winStart = 0
    /\ winCalls = 0
    /\ probeStart = 0
    /\ probePassed = 0

----------------------------------------------------------------------------
(* Actions of the detector *)

RateLimited(o) == o.kind = "SecurityError" /\ o.msg = <<M_rate>>

\* the clock moves on
Tick ==
    /\ now + TickStep <= StartTime + MaxElapsed
    /\ now' = now + TickStep
    /\ UNCHANGED <<sanitizeVars, settingsVars, frontVars, detectorVars, callVars, observerVars,
                   batchVars, dirVars>>

\* one call detect(x), in which the models and the feature analysis, where
\* they are reached, behave as answers and feat say
DetectCall(x, answers, feat) ==
    LET r == detect(_last_request_time, _request_count, _rate_limit,
                    max_text_length, now, x, answers, feat)
        fresh == now - winStart > Window
    IN  /\ r.count <= _rate_limit + MaxOver
        /\ _last_request_time' = r.last
        /\ _request_count' = r.count
        /\ arg' = x
        /\ answered' = [answers |-> answers, feat |-> feat]
        /\ ret' = r.out
        /\ winStart' = IF fresh THEN now ELSE winStart
        /\ winCalls' = IF fresh THEN 1 ELSE winCalls + 1
        /\ probePassed' =
              IF /\ ~RateLimited(r.out)
                 /\ probeStart <= now
                 /\ now <= probeStart + Window
              THEN probePassed + 1 ELSE probePassed
        /\ UNCHANGED <<sanitizeVars, settingsVars, now, max_text_length, max_file_size,
                     _rate_limit, probeStart>>

\* detect called on its own (--text, the interactive loop, the text tab)
Detect(x, answers, feat) ==
    /\ DetectCall(x, answers, feat)
    /\ UNCHANGED <<batchVars, dirVars, frontVars>>

----------------------------------------------------------------------------
(* The rate limiter under a moving clock *)

ClockTimes == { StartTime + k * TickStep : k \in 0..(MaxElapsed \div TickStep) }

InitRate ==
    /\ now = StartTime
    /\ InitDetector
    /\ IdleBatch
    /\ IdleDir
    /\ InitCall
    /\ IdleSanitize
    /\ IdleSettings
    /\ IdleFront
    /\ InitObservers

NextRate ==
    \/ Tick
    \/ \E x \in RateArgs, answers \in RateAnswers, feat \in RateFeatures :
          Detect(x, answers, feat)

SpecRate == InitRate /\ [][NextRate]_vars

----------------------------------------------------------------------------
(* The rate limiter watched through one 60-second interval that starts at  *)
(* an arbitrary reading of the clock                                       *)

InitProbe ==
    /\ now = StartTime
    /\ InitDetector
    /\ IdleBatch
    /\ IdleDir
    /\ InitCall
    /\ IdleSanitize
    /\ IdleSettings
    /\ IdleFront
    /\ winStart = 0
    /\ winCalls = 0
    /\ probeStart \in ClockTimes
    /\ probePassed = 0

NextProbe ==
    \/ Tick
    \/ Detect(Str(W_hi), CHOOSE a \in RateAnswers : TRUE, CHOOSE f \in RateFeatures : TRUE)

SpecProbe == InitProbe /\ [][NextProbe]_vars

----------------------------------------------------------------------------
(* detect as a function of its inputs: one call on a fresh detector *)

InitEnsemble ==
    /\ now = StartTime
    /\ InitDetector
    /\ IdleBatch
    /\ IdleDir
    /\ IdleSanitize
    /\ IdleSettings
    /\ IdleFront
    /\ InitObservers
    /\ arg \in EnsembleArgs
    /\ answered \in [answers : [1..2 -> ModelBehaviours], feat : FeatureBehaviours]
    /\ ret = NoCall

DetectGiven ==
    /\ ret = NoCall
    /\ Detect(arg, answered.answers, answered.feat)

NextEnsemble == DetectGiven

SpecEnsemble == InitEnsemble /\ [][NextEnsemble]_vars

----------------------------------------------------------------------------
(* AIDetector.batch_detect, one loop iteration at a time *)

\* the length a result's text is cut to
PreviewLen == 100

\* how many texts a batch holds at most
MaxBatch == 3

Ellipsis == <<".", ".", ".">>

\* text[:100] + "..." if len(text) > 100 else text
Preview(text) ==
    IF Len(text) > PreviewLen THEN SubSeq(text, 1, PreviewLen) \o Ellipsis ELSE text

\* the classes "except Exception" catches
ExceptionSubclasses ==
    {"SecurityError", "RuntimeError", "ValueError", "PipelineException", "Exception"}

BatchArgs == { Str(W_hi), Str(<<>>), Str(W_eval \o W_paren) }

BatchLists == UNION { [1..n -> BatchArgs] : n \in 0..MaxBatch }

BatchAnswers ==
    { <<Answer("LABEL_1", ScoreDen), Answer("LABEL_1", 1)>>,
      <<Failure("Exception"), Answer("LABEL_0", 1)>> }

\* batch_detect(texts) is entered: results = []
BatchStart(texts) ==
    /\ bPhase # "running"
    /\ bTexts' = texts
    /\ bResults' = <<>>
    /\ bPhase' = "running"
    /\ UNCHANGED <<sanitizeVars, settingsVars, frontVars, now, detectorVars, callVars, observerVars, dirVars>>

\* the loop body handling only SecurityError
BatchAppendSecurityOnly(text, o) ==
    IF o.kind = "return"
    THEN [results |-> Append(bResults,
              [text |-> Preview(text), prediction |-> o.label,
               confidence |-> o.conf, status |-> "success"]),
          phase |-> "running"]
    ELSE IF o.kind = "SecurityError"
    THEN [results |-> Append(bResults,
              [text |-> Preview(text), error |-> o.msg, status |-> "error"]),
          phase |-> "running"]
    ELSE [results |-> bResults, phase |-> "raised"]

\* the loop body of batch_detect after detect(text) ended as o: the results
\* list and whether the loop goes on
BatchAppend(text, o) ==
    IF o.kind = "return"
    THEN [results |-> Append(bResults,
              [text |-> Preview(text), prediction |-> o.label,
               confidence |-> o.conf, status |-> "success"]),
          phase |-> "running"]
    ELSE IF o.kind \in ExceptionSubclasses
    THEN [results |-> Append(bResults,
              [text |-> Preview(text), error |-> o.msg, status |-> "error"]),
          phase |-> "running"]
    ELSE [results |-> bResults, phase |-> "raised"]

\* one iteration of the loop of batch_detect
BatchStep(answers, feat) ==
    /\ bPhase = "running"
    /\ Len(bResults) < Len(bTexts)
    /\ LET x == bTexts[Len(bResults) + 1] IN
          /\ DetectCall(x, answers, feat)
          /\ LET b == BatchAppend(x.s, ret') IN
                /\ bResults' = b.results
                /\ bPhase' = b.phase
          /\ UNCHANGED <<bTexts, dirVars, frontVars>>

\* the loop is over: return results
BatchReturn ==
    /\ bPhase = "running"
    /\ Len(bResults) = Len(bTexts)
    /\ bPhase' = "returned"
    /\ UNCHANGED <<sanitizeVars, settingsVars, frontVars, now, detectorVars, callVars, observerVars,
                   bTexts, bResults, dirVars>>

InitBatch ==
    /\ now = StartTime
    /\ InitDetector
    /\ InitCall
    /\ IdleSanitize
    /\ IdleSettings
    /\ IdleFront
    /\ InitObservers
    /\ IdleBatch
    /\ IdleDir

NextBatch ==
    \/ \E texts \in BatchLists : BatchStart(texts)
    \/ \E answers \in BatchAnswers, feat \in RateFeatures : BatchStep(answers, feat)
    \/ BatchReturn

SpecBatch == InitBatch /\ [][NextBatch]_vars

----------------------------------------------------------------------------
(* Directory processing: process_directory of the command line and         *)
(* _analyze_directory of the batch tab, one file at a time                 *)

\* how many entries a directory holds at most
MaxFiles == 2

N_a == <<"a", ".", "t", "x", "t">>

N_b == <<"b", ".", "t", "x", "t">>

N_c == <<"c", ".", "m", "d">>

DotTxt == <<".", "t", "x", "t">>

\* name.endswith(suffix); path.glob("*" + suffix) selects the same names
EndsWith(name, suffix) ==
    /\ Len(name) >= Len(suffix)
    /\ SubSeq(name, Len(name) - Len(suffix) + 1, Len(name)) = suffix

\* what open(...).read() does with a file: its text, or an exception
Readable(text) == [raises |-> "", text |-> text]

Unreadable(class) == [raises |-> class, text |-> <<>>]

FileNames == {N_a, N_b, N_c}

FileBodies == { Readable(W_hi), Readable(W_eval \o W_paren),
                Unreadable("UnicodeDecodeError") }

DirEntries == [name : FileNames, body : FileBodies]

\* a directory: its entries in listing order, no name twice
Directories ==
    { [isDir |-> TRUE, entries |-> es] :
        es \in { e \in UNION { [1..n -> DirEntries] : n \in 0..MaxFiles } :
                   \A i \in 1..Len(e), j \in 1..Len(e) :
                       i # j => e[i].name # e[j].name } }
      \cup { NoDirectory }

\* list(path.glob("*.txt")), and [f for f in os.listdir(dir_path) if f.endswith('.txt')]
TextFiles(dir) == SelectSeq(dir.entries, LAMBDA e : EndsWith(e.name, DotTxt))

\* the handler is entered on the directory: a path that is no directory
\* ends it at once (ValueError, or os.listdir raising, caught by the outer
\* except), as does a directory without .txt files (return)
DirStart(mode) ==
    /\ dPhase # "running"
    /\ dMode' = mode
    /\ dFiles' = IF dDir.isDir THEN TextFiles(dDir) ELSE <<>>
    /\ dResults' = <<>>
    /\ dPhase' = IF ~dDir.isDir THEN "failed"
                 ELSE IF TextFiles(dDir) = <<>> THEN "done"
                 ELSE "running"
    /\ UNCHANGED <<sanitizeVars, settingsVars, frontVars, now, detectorVars, callVars, observerVars, batchVars,
                   dDir>>

\* the per-file handler catching only SecurityError
DirRecordSecurityOnly(mode, name, o) ==
    IF o.kind = "return"
    THEN [results |-> Append(dResults,
              [file |-> name, prediction |-> o.label, confidence |-> o.conf]),
          phase |-> "running"]
    ELSE IF o.kind = "SecurityError"
    THEN [results |-> Append(dResults,
              IF mode = "cli" THEN [file |-> name, error |-> o.msg]
              ELSE [file |-> name, error |-> o.msg, prefix |-> "Security Error - "]),
          phase |-> "running"]
    ELSE [results |-> dResults, phase |-> "failed"]

\* the per-file try/except of the loop, after open, read and detect ended
\* as o: the results list and whether the loop goes on
DirRecord(mode, name, o) ==
    IF o.kind = "return"
    THEN [results |-> Append(dResults,
              [file |-> name, prediction |-> o.label, confidence |-> o.conf]),
          phase |-> "running"]
    ELSE IF mode = "gui" /\ o.kind = "SecurityError"
    THEN [results |-> Append(dResults,
              [file |-> name, error |-> o.msg, prefix |-> "Security Error - "]),
          phase |-> "running"]
    ELSE IF o.kind \in ExceptionSubclasses \cup {"UnicodeDecodeError"}
    THEN [results |-> Append(dResults,
              IF mode = "cli" THEN [file |-> name, error |-> o.msg]
              ELSE [file |-> name, error |-> o.msg, prefix |-> "Error - "]),
          phase |-> "running"]
    ELSE [results |-> dResults, phase |-> "failed"]

\* one iteration of the loop on a file that cannot be read: detect is not
\* reached
DirStepUnreadable ==
    /\ dPhase = "running"
    /\ Len(dResults) < Len(dFiles)
    /\ LET f == dFiles[Len(dResults) + 1]
           d == DirRecord(dMode, f.name,
                          Outcome(f.body.raises, <<"cannot read">>, "", 0, 0, FALSE))
       IN  /\ f.body.raises # ""
           /\ dResults' = d.results
           /\ dPhase' = d.phase
    /\ UNCHANGED <<sanitizeVars, settingsVars, frontVars, now, detectorVars, callVars, observerVars, batchVars,
                   dMode, dDir, dFiles>>

\* one iteration of the loop on a file that is read and handed to detect
DirStepDetect(answers, feat) ==
    /\ dPhase = "running"
    /\ Len(dResults) < Len(dFiles)
    /\ LET f == dFiles[Len(dResults) + 1] IN
          /\ f.body.raises = ""
          /\ DetectCall(Str(f.body.text), answers, feat)
          /\ LET d == DirRecord(dMode, f.name, ret') IN
                /\ dResults' = d.results
                /\ dPhase' = d.phase
    /\ UNCHANGED <<batchVars, dMode, dDir, dFiles, frontVars>>

\* the loop is over: the results are printed, or written to the widget
DirFinish ==
    /\ dPhase = "running"
    /\ Len(dResults) = Len(dFiles)
    /\ dPhase' = "done"
    /\ UNCHANGED <<sanitizeVars, settingsVars, frontVars, now, detectorVars, callVars, observerVars, batchVars,
                   dMode, dDir, dFiles, dResults>>

InitDir ==
    /\ now = StartTime
    /\ InitDetector
    /\ InitCall
    /\ IdleSanitize
    /\ IdleSettings
    /\ IdleFront
    /\ InitObservers
    /\ IdleBatch
    /\ dMode = "cli"
    /\ dDir \in Directories
    /\ dFiles = <<>>
    /\ dResults = <<>>
    /\ dPhase = "idle"

NextDir ==
    \/ \E mode \in {"cli", "gui"} : DirStart(mode)
    \/ DirStepUnreadable
    \/ \E answers \in BatchAnswers, feat \in RateFeatures : DirStepDetect(answers, feat)
    \/ DirFinish

SpecDir == InitDir /\ [][NextDir]_vars

----------------------------------------------------------------------------
(* Config: config.py *)

MB == 1024 * 1024

S_light == <<"l", "i", "g", "h", "t">>

S_dark == <<"d", "a", "r", "k">>

S_None == <<"N", "o", "n", "e">>

S_True == <<"T", "r", "u", "e">>

S_False == <<"F", "a", "l", "s", "e">>

S_gpt2_model ==
    <<"m", "i", "c", "r", "o", "s", "o", "f", "t", "/", "D", "i",
      "a", "l", "o", "g", "R", "P", "T", "-", "h", "u", "m", "a",
      "n", "-", "v", "s", "-", "r", "a", "n", "d">>

S_roberta_model ==
    <<"r", "o", "b", "e", "r", "t", "a", "-", "b", "a", "s", "e",
      "-", "o", "p", "e", "n", "a", "i", "-", "d", "e", "t", "e",
      "c", "t", "o", "r">>

\* the literal assigned to self.default_config
DefaultTree ==
    Dict([security |-> Dict([max_text_length |-> IntV(10000),
                             max_file_size |-> IntV(MB),
                             rate_limit |-> IntV(100),
                             allowed_file_types |-> ListV(1, DotTxt),
                             log_retention_days |-> IntV(30)]),
          models |-> Dict([gpt2 |-> Dict([model_name |-> StrV(S_gpt2_model),
                                          max_length |-> IntV(512),
                                          truncation |-> BoolV(TRUE)]),
                           roberta |-> Dict([model_name |-> StrV(S_roberta_model),
                                             max_length |-> IntV(512),
                                             truncation |-> BoolV(TRUE)])]),
          ui |-> Dict([theme |-> StrV(S_light),
                       font_size |-> IntV(12),
                       window_size |-> Dict([width |-> IntV(800),
                                             height |-> IntV(600)]),
                       min_window_size |-> Dict([width |-> IntV(600),
                                                 height |-> IntV(400)])]),
          analysis |-> Dict([confidence_threshold |-> FloatV(70),
                             min_text_length |-> IntV(10),
                             batch_size |-> IntV(10)])])

\* Python objects: heap[id] is a dict object, a function from its keys to
\* values; a dict held inside another is held as Ref(id), so that two dicts
\* can hold the same object.
RECURSIVE Store(_, _)
RECURSIVE StoreItems(_)
\* builds the objects of a JSON value or dict literal: the new heap and the
\* value that refers to them
Store(h, v) ==
    IF v.k # "dict"
    THEN [heap |-> h, val |-> v]
    ELSE LET id == Len(h) + 1
         IN  [heap |-> StoreItems([heap |-> Append(h, EmptyDict), id |-> id,
                                   d |-> v.d, keys |-> DOMAIN v.d]),
              val |-> Ref(id)]

\* fills the dict object st.id with the items of d that are still to store
StoreItems(st) ==
    IF st.keys = {}
    THEN st.heap
    ELSE LET key == CHOOSE x \in st.keys : TRUE
             r == Store(st.heap, st.d[key])
         IN  StoreItems([heap |-> [r.heap EXCEPT ![st.id] = (key :> r.val) @@ @],
                         id |-> st.id, d |-> st.d, keys |-> st.keys \ {key}])

\* self.default_config is the first object Config.__init__ builds
DefaultRoot == 1

DefaultHeap == Store(<<>>, DefaultTree).heap

RECURSIVE Dump(_, _)
\* json.dump: the JSON value of a Python value
Dump(h, v) ==
    IF v.k = "ref"
    THEN Dict([key \in DOMAIN h[v.n] |-> Dump(h, h[v.n][key])])
    ELSE v

\* _load_config whose except clause returns an empty configuration
load_config_except_empty(h, f) ==
    IF f.state = "absent"
    THEN [heap |-> h, config |-> DefaultRoot]
    ELSE IF f.state \in {"garbage", "unreadable"}
    THEN [heap |-> Append(h, EmptyDict), config |-> Len(h) + 1]
    ELSE LET r == Store(h, f.tree)
         IN  IF r.val.k # "ref"
             THEN [heap |-> Append(r.heap, EmptyDict), config |-> Len(r.heap) + 1]
             ELSE [heap |-> Append(r.heap, r.heap[r.val.n] @@ r.heap[DefaultRoot]),
                   config |-> Len(r.heap) + 1]

\* Config._load_config: the heap afterwards and the object that becomes
\* self.config
_load_config(h, f) ==
    IF f.state = "absent"
    THEN [heap |-> h, config |-> DefaultRoot]
    ELSE IF f.state \in {"garbage", "unreadable"}
    THEN [heap |-> h, config |-> DefaultRoot]
    ELSE LET r == Store(h, f.tree)
         IN  IF r.val.k # "ref"
             THEN [heap |-> r.heap, config |-> DefaultRoot]
             ELSE [heap |-> Append(r.heap, r.heap[r.val.n] @@ r.heap[DefaultRoot]),
                   config |-> Len(r.heap) + 1]

\* Config.save_config: the file afterwards
save_config(h, c) == FileJson(Dump(h, Ref(c)))

RECURSIVE GetFrom(_, _, _)
GetFrom(h, value, keys) ==
    IF keys = <<>>
    THEN value
    ELSE IF value.k = "ref" /\ Head(keys) \in DOMAIN h[value.n]
    THEN GetFrom(h, h[value.n][Head(keys)], Tail(keys))
    ELSE NoneV

\* Config.get(key), key given as the parts key.split('.') yields
get(h, c, key) == GetFrom(h, Ref(c), key)

\* a SetIn whose last step puts the value in place of the dict's items
RECURSIVE SetInDroppingSiblings(_, _, _, _)
SetInDroppingSiblings(h, id, keys, value) ==
    IF Len(keys) = 1
    THEN [heap |-> [h EXCEPT ![id] = (keys[1] :> value)], raised |-> "none"]
    ELSE LET key == Head(keys)
             h1 == IF key \in DOMAIN h[id]
                   THEN h
                   ELSE Append([h EXCEPT ![id] = (key :> Ref(Len(h) + 1)) @@ @],
                               EmptyDict)
             child == h1[id][key]
         IN  IF child.k = "ref"
             THEN SetInDroppingSiblings(h1, child.n, Tail(keys), value)
             ELSE [heap |-> h1, raised |-> "TypeError"]

RECURSIVE SetIn(_, _, _, _)
\* the walk of Config.set from the dict object id: the heap afterwards, and
\* what was raised on the way (a part of the key that holds no dict)
SetIn(h, id, keys, value) ==
    IF Len(keys) = 1
    THEN [heap |-> [h EXCEPT ![id] = (keys[1] :> value) @@ @], raised |-> "none"]
    ELSE LET key == Head(keys)
             h1 == IF key \in DOMAIN h[id]
                   THEN h
                   ELSE Append([h EXCEPT ![id] = (key :> Ref(Len(h) + 1)) @@ @],
                               EmptyDict)
             child == h1[id][key]
         IN  IF child.k = "ref"
             THEN SetIn(h1, child.n, Tail(keys), value)
             ELSE [heap |-> h1, raised |-> "TypeError"]

\* Config.set(key, value): the heap and the file afterwards
set(h, c, f, key, value) ==
    LET r == SetIn(h, c, key, value)
    IN  [heap |-> r.heap,
         file |-> IF r.raised = "none" THEN save_config(r.heap, c) ELSE f,
         raised |-> r.raised]

\* validate_config: what each subscript and each assert does
KeyErr == [k |-> "KeyError", n |-> 0, s |-> <<>>]

TypeErr == [k |-> "TypeError", n |-> 0, s |-> <<>>]

Numeric == {"int", "float", "bool"}

\* v[key]
Item(h, v, key) ==
    IF v.k \in {"KeyError", "TypeError"}
    THEN v
    ELSE IF v.k = "ref"
    THEN IF key \in DOMAIN h[v.n] THEN h[v.n][key] ELSE KeyErr
    ELSE TypeErr

\* assert v > 0
AssertPositive(v) ==
    IF v.k = "KeyError" THEN "False"
    ELSE IF v.k \in Numeric THEN (IF v.n > 0 THEN "ok" ELSE "False")
    ELSE "raise"

\* assert isinstance(v, kind)
AssertIsInstance(v, kind) ==
    IF v.k = "KeyError" THEN "False"
    ELSE IF v.k = "TypeError" THEN "raise"
    ELSE IF v.k = kind THEN "ok" ELSE "False"

\* assert v in ['light', 'dark']
AssertTheme(v) ==
    IF v.k = "KeyError" THEN "False"
    ELSE IF v.k = "TypeError" THEN "raise"
    ELSE IF v \in {StrV(S_light), StrV(S_dark)} THEN "ok" ELSE "False"

\* assert 0 <= v <= 1
AssertUnit(v) ==
    IF v.k = "KeyError" THEN "False"
    ELSE IF v.k = "float" THEN (IF 0 <= v.n /\ v.n <= 100 THEN "ok" ELSE "False")
    ELSE IF v.k \in Numeric THEN (IF 0 <= v.n /\ v.n <= 1 THEN "ok" ELSE "False")
    ELSE "raise"

RECURSIVE ModelAsserts(_, _, _)
\* the loop over models.values(); the order of a dict's values is not kept
\* by the heap, so the loop runs in some fixed order
ModelAsserts(h, models, keys) ==
    IF keys = {}
    THEN <<>>
    ELSE LET key == CHOOSE x \in keys : TRUE
             model == h[models.n][key]
         IN  << AssertIsInstance(Item(h, model, "model_name"), "str"),
                AssertPositive(Item(h, model, "max_length")),
                AssertIsInstance(Item(h, model, "truncation"), "bool") >>
             \o ModelAsserts(h, models, keys \ {key})

RECURSIVE FirstFailure(_)
FirstFailure(asserts) ==
    IF asserts = <<>> THEN "True"
    ELSE IF Head(asserts) # "ok" THEN Head(asserts)
    ELSE FirstFailure(Tail(asserts))

\* Config.validate_config: "True", "False", or "raise" when an exception
\* other than AssertionError and KeyError leaves it
validate_config(h, c) ==
    LET security == Item(h, Ref(c), "security")
        models == Item(h, Ref(c), "models")
        ui == Item(h, Ref(c), "ui")
        analysis == Item(h, Ref(c), "analysis")
    IN  FirstFailure(
            << AssertPositive(Item(h, security, "max_text_length")),
               AssertPositive(Item(h, security, "max_file_size")),
               AssertPositive(Item(h, security, "rate_limit")),
               AssertIsInstance(Item(h, security, "allowed_file_types"), "list") >>
            \o (IF models.k = "KeyError" THEN << "False" >>
                ELSE IF models.k # "ref" THEN << "raise" >>
                ELSE ModelAsserts(h, models, DOMAIN h[models.n]))
            \o << AssertTheme(Item(h, ui, "theme")),
                  AssertPositive(Item(h, ui, "font_size")),
                  AssertPositive(Item(h, Item(h, ui, "window_size"), "width")),
                  AssertPositive(Item(h, Item(h, ui, "window_size"), "height")),
                  AssertUnit(Item(h, analysis, "confidence_threshold")),
                  AssertPositive(Item(h, analysis, "min_text_length")),
                  AssertPositive(Item(h, analysis, "batch_size")) >>)

----------------------------------------------------------------------------
(* Config files *)

MaxFileKeys == 2

S_gpt2 == <<"g", "p", "t", "2">>

S_abc == <<"a", "b", "c">>

\* a configuration that differs from the defaults in every setting
CustomTree ==
    Dict([security |-> Dict([max_text_length |-> IntV(5000),
                             max_file_size |-> IntV(2 * MB),
                             rate_limit |-> IntV(50),
                             allowed_file_types |-> ListV(2, DotTxt),
                             log_retention_days |-> IntV(7)]),
          models |-> Dict([gpt2 |-> Dict([model_name |-> StrV(S_gpt2),
                                          max_length |-> IntV(256),
                                          truncation |-> BoolV(FALSE)]),
                           roberta |-> Dict([model_name |-> StrV(S_abc),
                                             max_length |-> IntV(128),
                                             truncation |-> BoolV(FALSE)])]),
          ui |-> Dict([theme |-> StrV(S_dark),
                       font_size |-> IntV(14),
                       window_size |-> Dict([width |-> IntV(1024),
                                             height |-> IntV(768)]),
                       min_window_size |-> Dict([width |-> IntV(640),
                                                 height |-> IntV(480)])]),
          analysis |-> Dict([confidence_threshold |-> FloatV(50),
                             min_text_length |-> IntV(20),
                             batch_size |-> IntV(5)])])

RECURSIVE LeafPaths(_)
\* the key paths of the settings of a JSON object
LeafPaths(tree) ==
    IF tree.k # "dict"
    THEN { <<>> }
    ELSE UNION { { <<key>> \o p : p \in LeafPaths(tree.d[key]) } : key \in DOMAIN tree.d }

DefaultPaths == LeafPaths(DefaultTree)

RECURSIVE TreeHas(_, _)
\* the JSON value gives the setting at this key path
TreeHas(tree, path) ==
    IF path = <<>>
    THEN TRUE
    ELSE /\ tree.k = "dict"
         /\ Head(path) \in DOMAIN tree.d
         /\ TreeHas(tree.d[Head(path)], Tail(path))

RECURSIVE TreeGet(_, _)
TreeGet(tree, path) ==
    IF path = <<>> THEN tree ELSE TreeGet(tree.d[Head(path)], Tail(path))

RECURSIVE Restrict(_, _)
\* the JSON object that gives exactly the settings at these key paths
Restrict(tree, paths) ==
    IF tree.k # "dict"
    THEN tree
    ELSE Dict([key \in { Head(p) : p \in paths } |->
                 Restrict(tree.d[key], { Tail(p) : p \in { q \in paths : Head(q) = key } })])

RECURSIVE PathSets(_)
\* the sets of at most n key paths
PathSets(n) ==
    IF n = 0
    THEN { {} }
    ELSE LET smaller == PathSets(n - 1)
         IN  smaller \cup { P \cup {p} : P \in smaller, p \in DefaultPaths }

\* config.json as Config.__init__ may find it: missing, not JSON, JSON that
\* is no object, or an object giving some of the settings
ConfigFiles ==
    {FileAbsent, FileGarbage, FileUnreadable, FileJson(IntV(5)), FileJson(ListV(1, DotTxt)),
     FileJson(NoneV), FileJson(StrV(S_abc))}
    \cup { FileJson(Restrict(CustomTree, P)) : P \in PathSets(MaxFileKeys) }

\* Config.__init__
ConfigInit ==
    /\ config = 0
    /\ LET r == _load_config(DefaultHeap, file)
       IN  /\ heap' = r.heap
           /\ config' = r.config
           /\ validAtStart' = (validate_config(r.heap, r.config) = "True")
    /\ UNCHANGED <<file, dialog, edits, saves, setCall>>

NewConfig ==
    /\ ConfigInit
    /\ UNCHANGED <<sanitizeVars, frontVars, now, detectorVars, callVars, observerVars,
                   batchVars, dirVars, gui, style>>

InitLoad ==
    /\ file \in ConfigFiles
    /\ heap = <<>>
    /\ config = 0
    /\ gui = "none"
    /\ dialog = ClosedDialog
    /\ style = NoStyle
    /\ validAtStart = FALSE
    /\ setCall = NoSet
    /\ edits = 0
    /\ saves = 0
    /\ now = StartTime
    /\ InitDetector
    /\ InitCall
    /\ InitObservers
    /\ IdleSanitize
    /\ IdleFront
    /\ IdleBatch
    /\ IdleDir

NextLoad == NewConfig

SpecLoad == InitLoad /\ [][NextLoad]_vars

----------------------------------------------------------------------------
(* Config.set on a configuration loaded from a file *)

\* how many Config.set calls follow one another
MaxSets == 2

\* the keys set: a setting that exists, one two dicts down, a new top-level
\* key, one that needs two dicts created, a key that holds a dict, and one
\* that runs through a setting that is no dict
SetKeys ==
    { <<"security", "rate_limit">>,
      <<"ui", "window_size", "width">>,
      <<"extra">>,
      <<"extra", "deep", "x">>,
      <<"analysis">>,
      <<"security", "rate_limit", "x">> }

SetValues == { IntV(7), StrV(S_abc) }

\* config.json as the configuration is loaded from
SetFiles ==
    { FileAbsent, FileGarbage,
      FileJson(Restrict(CustomTree, { <<"security", "rate_limit">> })),
      FileJson(Restrict(CustomTree, { <<"ui", "window_size", "width">> })),
      FileJson(Restrict(CustomTree, DefaultPaths)) }

\* config.set(key, value) on the configuration constructed
SetCall(key, value) ==
    /\ config # 0
    /\ setCall.n < MaxSets
    /\ LET r == set(heap, config, file, key, value)
       IN  /\ heap' = r.heap
           /\ file' = r.file
           /\ setCall' = [key |-> key, value |-> value, before |-> heap,
                          raised |-> r.raised, n |-> setCall.n + 1]
    /\ UNCHANGED <<sanitizeVars, frontVars, now, detectorVars, callVars, observerVars,
                   batchVars, dirVars, config, gui, dialog, style, validAtStart, edits, saves>>

InitSet ==
    /\ file \in SetFiles
    /\ heap = <<>>
    /\ config = 0
    /\ gui = "none"
    /\ dialog = ClosedDialog
    /\ style = NoStyle
    /\ validAtStart = FALSE
    /\ setCall = NoSet
    /\ edits = 0
    /\ saves = 0
    /\ now = StartTime
    /\ InitDetector
    /\ InitCall
    /\ InitObservers
    /\ IdleSanitize
    /\ IdleFront
    /\ IdleBatch
    /\ IdleDir

NextSet ==
    \/ NewConfig
    \/ \E key \in SetKeys, value \in SetValues : SetCall(key, value)

SpecSet == InitSet /\ [][NextSet]_vars

----------------------------------------------------------------------------
(* The settings dialog: settings_dialog.py, and the window that opens it *)

MaxEdits == 1

MaxSaves == 2

Digit == <<"0", "1", "2", "3", "4", "5", "6", "7", "8", "9">>

IsDigit(c) == \E d \in 1..10 : Digit[d] = c

DigitValue(c) == (CHOOSE d \in 1..10 : Digit[d] = c) - 1

AllDigits(text) == text # <<>> /\ \A i \in 1..Len(text) : IsDigit(text[i])

RECURSIVE NatOf(_)
NatOf(text) ==
    IF text = <<>>
    THEN 0
    ELSE NatOf(SubSeq(text, 1, Len(text) - 1)) * 10 + DigitValue(text[Len(text)])

RECURSIVE FormatNat(_)
FormatNat(n) ==
    IF n < 10
    THEN << Digit[n + 1] >>
    ELSE FormatNat(n \div 10) \o << Digit[(n % 10) + 1] >>

\* str(n) of an int
FormatInt(n) == IF n < 0 THEN << "-" >> \o FormatNat(-n) ELSE FormatNat(n)

\* str(x) of a float that is a whole number of hundredths and not negative
FormatFloat(hundredths) ==
    LET frac == hundredths % 100
    IN  FormatNat(hundredths \div 100) \o << "." >> \o
        (IF frac % 10 = 0
         THEN << Digit[(frac \div 10) + 1] >>
         ELSE << Digit[(frac \div 10) + 1], Digit[(frac % 10) + 1] >>)

ValueErr == [k |-> "ValueError", n |-> 0, s |-> <<>>]

\* int(text), for texts of digits, signed or not, and texts that hold
\* something that is no digit, sign, blank or underscore
ParseInt(text) ==
    IF AllDigits(text) THEN IntV(NatOf(text))
    ELSE IF text # <<>> /\ Head(text) = "-" /\ AllDigits(Tail(text))
    THEN IntV(0 - NatOf(Tail(text)))
    ELSE ValueErr

\* float(text), for texts of digits with at most one point followed by one
\* or two digits, and texts that are no number
ParseFloat(text) ==
    LET points == { i \in 1..Len(text) : text[i] = "." }
    IN  IF points = {}
        THEN IF AllDigits(text) THEN FloatV(100 * NatOf(text)) ELSE ValueErr
        ELSE IF Cardinality(points) # 1
        THEN ValueErr
        ELSE LET i == CHOOSE p \in points : TRUE
                 whole == SubSeq(text, 1, i - 1)
                 frac == SubSeq(text, i + 1, Len(text))
             IN  IF AllDigits(whole) /\ AllDigits(frac) /\ Len(frac) <= 2
                 THEN FloatV(100 * NatOf(whole)
                             + (IF Len(frac) = 1 THEN 10 * NatOf(frac) ELSE NatOf(frac)))
                 ELSE ValueErr

\* str(v), and the text an entry shows for v; a list or a dict shows its
\* repr, which is no number and no theme
PyStr(v) ==
    IF v.k = "int" THEN FormatInt(v.n)
    ELSE IF v.k = "float" THEN FormatFloat(v.n)
    ELSE IF v.k = "bool" THEN (IF v.n = 1 THEN S_True ELSE S_False)
    ELSE IF v.k = "none" THEN S_None
    ELSE IF v.k = "str" THEN v.s
    ELSE << "{", "}" >>

\* v // (1024 * 1024)
FloorDivMB(v) ==
    IF v.k \in {"int", "bool"} THEN IntV(v.n \div MB)
    ELSE IF v.k = "float" THEN FloatV(100 * (v.n \div (100 * MB)))
    ELSE TypeErr

\* SettingsDialog.__init__: what the _create_*_tab methods put in the
\* entries, or the exception that leaves them
Prefill(h, c) ==
    LET megabytes == FloorDivMB(get(h, c, <<"security", "max_file_size">>))
    IN  IF megabytes.k = "TypeError"
        THEN [raised |-> TRUE, entries |-> NoEntries]
        ELSE [raised |-> FALSE,
              entries |->
                [max_text_length |-> PyStr(get(h, c, <<"security", "max_text_length">>)),
                 max_file_size |-> PyStr(megabytes),
                 rate_limit |-> PyStr(get(h, c, <<"security", "rate_limit">>)),
                 log_retention |-> PyStr(get(h, c, <<"security", "log_retention_days">>)),
                 gpt2_model |-> PyStr(get(h, c, <<"models", "gpt2", "model_name">>)),
                 roberta_model |-> PyStr(get(h, c, <<"models", "roberta", "model_name">>)),
                 max_length |-> PyStr(get(h, c, <<"models", "gpt2", "max_length">>)),
                 theme |-> PyStr(get(h, c, <<"ui", "theme">>)),
                 font_size |-> PyStr(get(h, c, <<"ui", "font_size">>)),
                 confidence_threshold |->
                     PyStr(get(h, c, <<"analysis", "confidence_threshold">>)),
                 min_text_length |-> PyStr(get(h, c, <<"analysis", "min_text_length">>)),
                 batch_size |-> PyStr(get(h, c, <<"analysis", "batch_size">>))]]

\* the config.set calls of _save_settings, in their order: the key, the entry
\* read, and what is applied to its text
SaveSteps ==
    << [key |-> <<"security", "max_text_length">>, field |-> "max_text_length", conv |-> "int"],
       [key |-> <<"security", "max_file_size">>, field |-> "max_file_size", conv |-> "mb"],
       [key |-> <<"security", "rate_limit">>, field |-> "rate_limit", conv |-> "int"],
       [key |-> <<"security", "log_retention_days">>, field |-> "log_retention", conv |-> "int"],
       [key |-> <<"models", "gpt2", "model_name">>, field |-> "gpt2_model", conv |-> "str"],
       [key |-> <<"models", "roberta", "model_name">>, field |-> "roberta_model", conv |-> "str"],
       [key |-> <<"models", "gpt2", "max_length">>, field |-> "max_length", conv |-> "int"],
       [key |-> <<"models", "roberta", "max_length">>, field |-> "max_length", conv |-> "int"],
       [key |-> <<"ui", "theme">>, field |-> "theme", conv |-> "str"],
       [key |-> <<"ui", "font_size">>, field |-> "font_size", conv |-> "int"],
       [key |-> <<"analysis", "confidence_threshold">>, field |-> "confidence_threshold",
        conv |-> "float"],
       [key |-> <<"analysis", "min_text_length">>, field |-> "min_text_length", conv |-> "int"],
       [key |-> <<"analysis", "batch_size">>, field |-> "batch_size", conv |-> "int"] >>

Convert(conv, text) ==
    IF conv = "int" THEN ParseInt(text)
    ELSE IF conv = "mb"
    THEN LET v == ParseInt(text)
         IN  IF v.k = "ValueError" THEN v ELSE IntV(v.n * MB)
    ELSE IF conv = "float" THEN ParseFloat(text)
    ELSE StrV(text)

RECURSIVE ApplySets(_, _, _, _, _)
\* the config.set calls of _save_settings from the i-th on: the heap and the
\* file afterwards, and the exception that ended them early
ApplySets(h, c, f, entries, i) ==
    IF i > Len(SaveSteps)
    THEN [heap |-> h, file |-> f, raised |-> "none"]
    ELSE LET step == SaveSteps[i]
             v == Convert(step.conv, entries[step.field])
         IN  IF v.k = "ValueError"
             THEN [heap |-> h, file |-> f, raised |-> "ValueError"]
             ELSE LET r == set(h, c, f, step.key, v)
                  IN  IF r.raised # "none"
                      THEN r
                      ELSE ApplySets(r.heap, c, r.file, entries, i + 1)

\* no AIDetector constructed yet
NoDetector ==
    /\ max_text_length = 0
    /\ max_file_size = 0
    /\ _last_request_time = 0
    /\ _request_count = 0
    /\ _rate_limit = 0

\* AIDetector.__init__ with the two settings read from the configuration
\* goes through; loads says whether the models could be loaded
Constructs(h, c, loads) ==
    LET length == get(h, c, <<"security", "max_text_length">>)
        size == get(h, c, <<"security", "max_file_size">>)
    IN  /\ length.k \in Numeric
        /\ length.n > 0
        /\ size.k \in Numeric
        /\ size.n > 0
        /\ loads

NewDetector(h, c) ==
    /\ max_text_length' = get(h, c, <<"security", "max_text_length">>).n
    /\ max_file_size' = get(h, c, <<"security", "max_file_size">>).n
    /\ _last_request_time' = 0
    /\ _request_count' = 0
    /\ _rate_limit' = DefaultRateLimit

\* AIDetectorGUI._update_ui_settings
_update_ui_settings(h, c) ==
    [palette |-> IF get(h, c, <<"ui", "theme">>) = StrV(S_dark) THEN "dark" ELSE "light",
     font |-> get(h, c, <<"ui", "font_size">>)]

\* the on_save callback of _show_settings
on_save(h, c, loads) ==
    IF Constructs(h, c, loads)
    THEN /\ NewDetector(h, c)
         /\ style' = _update_ui_settings(h, c)
    ELSE UNCHANGED <<detectorVars, style>>

\* AIDetectorGUI.__init__
GuiInit(loads) ==
    /\ gui = "none"
    /\ ConfigInit
    /\ LET r == _load_config(DefaultHeap, file)
       IN  IF Constructs(r.heap, r.config, loads)
           THEN /\ NewDetector(r.heap, r.config)
                /\ gui' = "running"
           ELSE /\ UNCHANGED detectorVars
                /\ gui' = "destroyed"
    /\ UNCHANGED <<sanitizeVars, frontVars, now, callVars, observerVars, batchVars, dirVars, style>>

\* Settings > Preferences
ShowSettings ==
    /\ gui = "running"
    /\ ~dialog.open
    /\ LET p == Prefill(heap, config)
       IN  /\ ~p.raised
           /\ dialog' = [open |-> TRUE, entries |-> p.entries]
    /\ UNCHANGED <<sanitizeVars, frontVars, now, detectorVars, callVars, observerVars, batchVars,
                   dirVars, file, heap, config, gui, style, validAtStart, edits, saves, setCall>>

\* what the user types into an entry of the dialog
EditTexts == { <<"7">>, <<"0">>, S_abc, S_dark }

Edit(field, text) ==
    /\ dialog.open
    /\ edits < MaxEdits
    /\ dialog.entries[field] # text
    /\ dialog' = [dialog EXCEPT !.entries[field] = text]
    /\ edits' = edits + 1
    /\ UNCHANGED <<sanitizeVars, frontVars, now, detectorVars, callVars, observerVars, batchVars,
                   dirVars, file, heap, config, gui, style, validAtStart, saves, setCall>>

\* SettingsDialog._save_settings
SaveSettings(loads) ==
    /\ dialog.open
    /\ saves < MaxSaves
    /\ LET r == ApplySets(heap, config, file, dialog.entries, 1)
       IN  /\ heap' = r.heap
           /\ file' = r.file
           /\ IF r.raised = "none" /\ validate_config(r.heap, config) = "True"
              THEN /\ on_save(r.heap, config, loads)
                   /\ dialog' = ClosedDialog
              ELSE UNCHANGED <<detectorVars, style, dialog>>
    /\ saves' = saves + 1
    /\ UNCHANGED <<sanitizeVars, frontVars, now, callVars, observerVars, batchVars, dirVars,
                   config, gui, validAtStart, edits, setCall>>

\* SettingsDialog._reset_defaults, the question answered with yes
ResetDefaults(loads) ==
    /\ dialog.open
    /\ saves < MaxSaves
    /\ config' = DefaultRoot
    /\ file' = save_config(heap, DefaultRoot)
    /\ on_save(heap, DefaultRoot, loads)
    /\ dialog' = ClosedDialog
    /\ saves' = saves + 1
    /\ UNCHANGED <<sanitizeVars, frontVars, now, callVars, observerVars, batchVars, dirVars,
                   heap, gui, validAtStart, edits, setCall>>

\* the Cancel button
Cancel ==
    /\ dialog.open
    /\ dialog' = ClosedDialog
    /\ UNCHANGED <<sanitizeVars, frontVars, now, detectorVars, callVars, observerVars, batchVars,
                   dirVars, file, heap, config, gui, style, validAtStart, edits, saves, setCall>>

\* config.json as the window may find it at start
SettingsFiles ==
    { FileAbsent,
      FileJson(Restrict(CustomTree, {})),
      FileJson(Restrict(CustomTree, DefaultPaths)),
      FileJson(Restrict(CustomTree, { <<"analysis", "batch_size">> })),
      FileJson(Restrict(CustomTree, { <<"security", "rate_limit">> })) }

InitSettings ==
    /\ file \in SettingsFiles
    /\ heap = <<>>
    /\ config = 0
    /\ gui = "none"
    /\ dialog = ClosedDialog
    /\ style = NoStyle
    /\ validAtStart = FALSE
    /\ setCall = NoSet
    /\ edits = 0
    /\ saves = 0
    /\ now = StartTime
    /\ NoDetector
    /\ InitCall
    /\ InitObservers
    /\ IdleSanitize
    /\ IdleFront
    /\ IdleBatch
    /\ IdleDir

NextSettings ==
    \/ \E loads \in BOOLEAN : GuiInit(loads)
    \/ ShowSettings
    \/ \E field \in Fields, text \in EditTexts : Edit(field, text)
    \/ \E loads \in BOOLEAN : SaveSettings(loads)
    \/ \E loads \in BOOLEAN : ResetDefaults(loads)
    \/ Cancel

SpecSettings == InitSettings /\ [][NextSettings]_vars

----------------------------------------------------------------------------
(* The text tab: _analyze_text and the threads it starts, next to the       *)
(* settings dialog                                                         *)

\* how many analyses are started
MaxWorkers == 2

\* a thread running analyze() of _analyze_text on text; at is the statement
\* it executes next
Worker(text) == [text |-> text, at |-> "detect", out |-> NoCall]

\* the Analyze Text button
_analyze_text(text) ==
    /\ gui = "running"
    /\ LET t == Strip(text)
       IN  IF t = <<>>
           THEN UNCHANGED vars
           ELSE /\ Len(workers) < MaxWorkers
                /\ status_var' = Shown(0, "Analyzing...", NoCall)
                /\ text_result' = Shown(0, "Analyzing...", NoCall)
                /\ workers' = Append(workers, Worker(t))
                /\ UNCHANGED <<sanitizeVars, settingsVars, now, detectorVars, callVars,
                               observerVars, batchVars, dirVars, cliVars, fileVars, wrote>>

\* analyze(): self.detector.detect(text), on the detector the window holds
\* when the thread gets there
WorkerDetect(i, answers, feat) ==
    /\ i \in 1..Len(workers)
    /\ workers[i].at = "detect"
    /\ DetectCall(Str(workers[i].text), answers, feat)
    /\ workers' = [workers EXCEPT ![i].at = "text_result", ![i].out = ret']
    /\ UNCHANGED <<batchVars, dirVars, cliVars, fileVars, text_result, status_var, wrote>>

\* the text the try/except of analyze() puts before what detect came to
ResultText(o) ==
    IF o.kind = "return" THEN "Result: "
    ELSE IF o.kind = "SecurityError" THEN "Security Error: "
    ELSE "Error: "

StatusText(o) ==
    IF o.kind = "return" THEN "Analysis complete"
    ELSE IF o.kind = "SecurityError" THEN "Security error occurred"
    ELSE "Error occurred"

\* analyze() writing the result label only while no other thread has
WorkerResultFirstOnly(i) ==
    /\ i \in 1..Len(workers)
    /\ workers[i].at = "text_result"
    /\ text_result' = IF wrote = <<>>
                      THEN Shown(i, ResultText(workers[i].out), workers[i].out)
                      ELSE text_result
    /\ wrote' = Append(wrote, i)
    /\ workers' = [workers EXCEPT ![i].at = "status_var"]
    /\ UNCHANGED <<sanitizeVars, settingsVars, now, detectorVars, callVars, observerVars,
                   batchVars, dirVars, cliVars, fileVars, status_var>>

\* analyze(): self.text_result.config(text=...)
WorkerResult(i) ==
    /\ i \in 1..Len(workers)
    /\ workers[i].at = "text_result"
    /\ text_result' = Shown(i, ResultText(workers[i].out), workers[i].out)
    /\ wrote' = Append(wrote, i)
    /\ workers' = [workers EXCEPT ![i].at = "status_var"]
    /\ UNCHANGED <<sanitizeVars, settingsVars, now, detectorVars, callVars, observerVars,
                   batchVars, dirVars, cliVars, fileVars, status_var>>

\* analyze(): self.status_var.set(...), after which the thread ends
WorkerStatus(i) ==
    /\ i \in 1..Len(workers)
    /\ workers[i].at = "status_var"
    /\ status_var' = Shown(i, StatusText(workers[i].out), workers[i].out)
    /\ workers' = [workers EXCEPT ![i].at = "ended"]
    /\ UNCHANGED <<sanitizeVars, settingsVars, now, detectorVars, callVars, observerVars,
                   batchVars, dirVars, cliVars, fileVars, text_result, wrote>>

\* what is typed into the text box
TabTexts == { <<" ">>, W_hi \o <<" ">>, W_eval \o W_paren }

\* what the two models answer in the text tab
TabAnswers == <<Answer("LABEL_1", ScoreDen), Answer("LABEL_0", 1)>>

\* what is typed into the rate limit entry
RateEdits == { <<"1">> }

InitGui ==
    /\ InitSettings
    /\ file = FileAbsent

\* the models load whenever on_save builds the new detector
NextGui ==
    \/ \E loads \in BOOLEAN : GuiInit(loads)
    \/ ShowSettings
    \/ \E text \in RateEdits : Edit("rate_limit", text)
    \/ SaveSettings(TRUE)
    \/ ResetDefaults(TRUE)
    \/ Cancel
    \/ \E text \in TabTexts : _analyze_text(text)
    \/ \E i \in 1..MaxWorkers :
          WorkerDetect(i, TabAnswers, CHOOSE f \in RateFeatures : TRUE)
    \/ \E i \in 1..MaxWorkers : WorkerResult(i)
    \/ \E i \in 1..MaxWorkers : WorkerStatus(i)

SpecGui == InitGui /\ [][NextGui]_vars

----------------------------------------------------------------------------
(* detect called from several worker threads at once: _check_rate_limit    *)
(* statement by statement, on the one detector the window holds             *)

RECURSIVE CallsFrom(_)
\* st.k more calls of detect at StartTime on a detector whose window start
\* and counter are st.last and st.count
CallsFrom(st) ==
    IF st.k = 0
    THEN [last |-> st.last, count |-> st.count]
    ELSE LET d == _check_rate_limit(st.last, st.count, DefaultRateLimit, StartTime)
         IN  CallsFrom([last |-> d.last, count |-> d.count, k |-> st.k - 1])

\* the detector's window start and counter after k calls of detect made one
\* after another at StartTime
AfterCalls(k) == CallsFrom([last |-> 0, count |-> 0, k |-> k])

\* how many calls were made before the threads start: none, one, and one
\* less than the limit
EarlierCalls == {0, 1, DefaultRateLimit - 1}

\* the statements of detect a thread has gone past _check_rate_limit at
PastCheck == {"body", "text_result", "status_var", "ended"}

\* current_time = time.time(), and the test of
\* "if current_time - self._last_request_time > 60"
RaceWindow(i) ==
    /\ i \in 1..Len(workers)
    /\ workers[i].at = "detect"
    /\ workers' = [workers EXCEPT ![i] =
           [text |-> @.text, out |-> @.out, t |-> now, tmp |-> 0,
            at |-> IF now - _last_request_time > Window THEN "reset_count" ELSE "load"]]
    /\ winCalls' = winCalls + 1
    /\ UNCHANGED <<sanitizeVars, settingsVars, now, detectorVars, callVars, winStart,
                   probeStart, probePassed, batchVars, dirVars, cliVars, fileVars,
                   text_result, status_var, wrote>>

\* self._request_count = 0
RaceResetCount(i) ==
    /\ i \in 1..Len(workers)
    /\ workers[i].at = "reset_count"
    /\ _request_count' = 0
    /\ workers' = [workers EXCEPT ![i].at = "reset_time"]
    /\ UNCHANGED <<sanitizeVars, settingsVars, now, max_text_length, max_file_size,
                   _last_request_time, _rate_limit, callVars, observerVars, batchVars,
                   dirVars, cliVars, fileVars, text_result, status_var, wrote>>

\* self._last_request_time = current_time
RaceResetTime(i) ==
    /\ i \in 1..Len(workers)
    /\ workers[i].at = "reset_time"
    /\ _last_request_time' = workers[i].t
    /\ workers' = [workers EXCEPT ![i].at = "load"]
    /\ UNCHANGED <<sanitizeVars, settingsVars, now, max_text_length, max_file_size,
                   _request_count, _rate_limit, callVars, observerVars, batchVars,
                   dirVars, cliVars, fileVars, text_result, status_var, wrote>>

\* self._request_count += 1, the read
RaceLoad(i) ==
    /\ i \in 1..Len(workers)
    /\ workers[i].at = "load"
    /\ workers' = [workers EXCEPT ![i].at = "store", ![i].tmp = _request_count]
    /\ UNCHANGED <<sanitizeVars, settingsVars, now, detectorVars, callVars, observerVars,
                   batchVars, dirVars, cliVars, fileVars, text_result, status_var, wrote>>

\* self._request_count += 1, the write
RaceStore(i) ==
    /\ i \in 1..Len(workers)
    /\ workers[i].at = "store"
    /\ _request_count' = workers[i].tmp + 1
    /\ workers' = [workers EXCEPT ![i].at = "check"]
    /\ UNCHANGED <<sanitizeVars, settingsVars, now, max_text_length, max_file_size,
                   _last_request_time, _rate_limit, callVars, observerVars, batchVars,
                   dirVars, cliVars, fileVars, text_result, status_var, wrote>>

\* if self._request_count > self._rate_limit: raise SecurityError(...)
RaceCheck(i) ==
    /\ i \in 1..Len(workers)
    /\ workers[i].at = "check"
    /\ IF _request_count > _rate_limit
       THEN /\ workers' = [workers EXCEPT
                   ![i].at = "text_result",
                   ![i].out = DetectHandlers(Outcome("SecurityError", <<M_rate>>, "", 0, 0, FALSE))]
            /\ UNCHANGED probePassed
       ELSE /\ workers' = [workers EXCEPT ![i].at = "body"]
            /\ probePassed' = probePassed + 1
    /\ UNCHANGED <<sanitizeVars, settingsVars, now, detectorVars, callVars, winStart, winCalls,
                   probeStart, batchVars, dirVars, cliVars, fileVars, text_result,
                   status_var, wrote>>

\* the rest of detect's try block and its except clauses
RaceBody(i, answers, feat) ==
    /\ i \in 1..Len(workers)
    /\ workers[i].at = "body"
    /\ workers' = [workers EXCEPT
           ![i].at = "text_result",
           ![i].out = DetectHandlers(DetectBody(max_text_length, Str(workers[i].text),
                                                answers, feat))]
    /\ UNCHANGED <<sanitizeVars, settingsVars, now, detectorVars, callVars, observerVars,
                   batchVars, dirVars, cliVars, fileVars, text_result, status_var, wrote>>

\* the window after AIDetectorGUI.__init__ without a config.json, and k calls
\* of detect made before the threads start
InitRace ==
    /\ file = FileAbsent
    /\ heap = DefaultHeap
    /\ config = DefaultRoot
    /\ gui = "running"
    /\ dialog = ClosedDialog
    /\ style = NoStyle
    /\ validAtStart = (validate_config(DefaultHeap, DefaultRoot) = "True")
    /\ setCall = NoSet
    /\ edits = 0
    /\ saves = 0
    /\ now = StartTime
    /\ max_text_length = get(DefaultHeap, DefaultRoot, <<"security", "max_text_length">>).n
    /\ max_file_size = get(DefaultHeap, DefaultRoot, <<"security", "max_file_size">>).n
    /\ _rate_limit = DefaultRateLimit
    /\ \E k \in EarlierCalls :
          /\ _last_request_time = AfterCalls(k).last
          /\ _request_count = AfterCalls(k).count
          /\ winCalls = k
          /\ probePassed = k
    /\ winStart = StartTime
    /\ probeStart = StartTime
    /\ InitCall
    /\ IdleSanitize
    /\ IdleFront
    /\ IdleBatch
    /\ IdleDir

NextRace ==
    \/ \E text \in TabTexts : _analyze_text(text)
    \/ \E i \in 1..MaxWorkers : RaceWindow(i)
    \/ \E i \in 1..MaxWorkers : RaceResetCount(i)
    \/ \E i \in 1..MaxWorkers : RaceResetTime(i)
    \/ \E i \in 1..MaxWorkers : RaceLoad(i)
    \/ \E i \in 1..MaxWorkers : RaceStore(i)
    \/ \E i \in 1..MaxWorkers : RaceCheck(i)
    \/ \E i \in 1..MaxWorkers : RaceBody(i, TabAnswers, CHOOSE f \in RateFeatures : TRUE)
    \/ \E i \in 1..MaxWorkers : WorkerResult(i)
    \/ \E i \in 1..MaxWorkers : WorkerStatus(i)

SpecRace == InitRace /\ [][NextRace]_vars

----------------------------------------------------------------------------
(* main: the command line *)

\* how many detect calls the prompt loop is followed through
MaxPrompts == 3

\* the mutually exclusive options given on the command line
GivenOptions(a) ==
    { o \in {"text", "file", "dir", "batch"} : a[o].given }
    \cup (IF a.interactive THEN {"interactive"} ELSE {})

\* parser.parse_args() ends in parser.error: not exactly one option of the
\* required group, or --batch without a value
ParseError(a) ==
    \/ Cardinality(GivenOptions(a)) # 1
    \/ a.batch.given /\ a.batch.v = <<>>

Calling(handler, on, format) ==
    [phase |-> "calling", ran |-> handler, arg |-> on, format |-> format, status |-> 0]

Exited(c, status) == [c EXCEPT !.phase = "exited", !.status = status]

\* the if/elif chain of main: the handler called and what it is called on,
\* or the end of main when no branch is taken
Dispatch(a) ==
    IF a.text.given /\ a.text.v # <<>> THEN Calling("detect", a.text.v, a.format)
    ELSE IF a.file.given /\ a.file.v # <<>> THEN Calling("process_file", a.file.v, a.format)
    ELSE IF a.dir.given /\ a.dir.v # <<>>
    THEN Calling("process_directory", a.dir.v, a.format)
    ELSE IF a.batch.given /\ a.batch.v # <<>> THEN Calling("batch_detect", a.batch.v, a.format)
    ELSE IF a.interactive THEN Calling("interactive", <<>>, a.format)
    ELSE Exited(NotStarted, 0)

\* AIDetector() with its default parameters
BuildDetector ==
    /\ max_text_length' = ConfiguredMaxTextLength
    /\ max_file_size' = ConfiguredMaxFileSize
    /\ _last_request_time' = 0
    /\ _request_count' = 0
    /\ _rate_limit' = DefaultRateLimit

\* main up to the call of a handler; loads says whether AIDetector() could
\* load its models
Main(loads) ==
    /\ cli.phase = "start"
    /\ IF ParseError(args)
       THEN /\ cli' = Exited(NotStarted, 2)
            /\ UNCHANGED detectorVars
       ELSE IF ~loads
       THEN /\ cli' = Exited(NotStarted, 1)
            /\ UNCHANGED detectorVars
       ELSE /\ cli' = Dispatch(args)
            /\ BuildDetector
    /\ UNCHANGED <<sanitizeVars, settingsVars, now, callVars, observerVars, batchVars, dirVars,
                   args, fileVars, guiVars>>

Calls(handler) == cli.phase = "calling" /\ cli.ran = handler

\* --text: detector.detect(args.text)
CliDetect(answers, feat) ==
    /\ Calls("detect")
    /\ ret = NoCall
    /\ Detect(Str(cli.arg), answers, feat)

\* process_file on a path that cannot be opened or read
ProcessFileUnreadable ==
    /\ Calls("process_file")
    /\ fOut.phase = "idle"
    /\ fFile.body.raises # ""
    /\ fOut' = [phase |-> "done", detected |-> FALSE,
                out |-> Outcome(fFile.body.raises, <<"cannot read">>, "", 0, 0, FALSE)]
    /\ cli' = Exited(cli, 1)
    /\ UNCHANGED <<sanitizeVars, settingsVars, now, detectorVars, callVars, observerVars,
                   batchVars, dirVars, args, fFile, guiVars>>

\* process_file on a file it can read
ProcessFileDetect(answers, feat) ==
    /\ Calls("process_file")
    /\ fOut.phase = "idle"
    /\ fFile.body.raises = ""
    /\ DetectCall(Str(fFile.body.text), answers, feat)
    /\ fOut' = [phase |-> "done", detected |-> TRUE, out |-> ret']
    /\ cli' = Exited(cli, IF ret'.kind = "return" THEN 0 ELSE 1)
    /\ UNCHANGED <<batchVars, dirVars, args, fFile, guiVars>>

\* --dir: process_directory(args.dir, detector, args.format)
CliDirStart == Calls("process_directory") /\ dPhase = "idle" /\ DirStart("cli")

CliDirStepUnreadable == Calls("process_directory") /\ dMode = "cli" /\ DirStepUnreadable

CliDirStepDetect(answers, feat) ==
    Calls("process_directory") /\ dMode = "cli" /\ DirStepDetect(answers, feat)

CliDirFinish == Calls("process_directory") /\ dMode = "cli" /\ DirFinish

\* --batch: detector.batch_detect(args.batch)
CliBatchStart ==
    /\ Calls("batch_detect")
    /\ bPhase = "idle"
    /\ BatchStart([i \in 1..Len(cli.arg) |-> Str(cli.arg[i])])

CliBatchStep(answers, feat) == Calls("batch_detect") /\ BatchStep(answers, feat)

CliBatchReturn == Calls("batch_detect") /\ BatchReturn

\* text.lower()
Lower(s) == [i \in 1..Len(s) |-> Fold(s[i])]

W_exit == <<"e", "x", "i", "t">>

\* --interactive: one round of the prompt loop on the line typed
CliPrompt(line, answers, feat) ==
    /\ Calls("interactive")
    /\ LET text == Strip(line)
       IN  IF Lower(text) = W_exit
           THEN /\ cli' = Exited(cli, 0)
                /\ UNCHANGED <<sanitizeVars, settingsVars, now, detectorVars, callVars,
                               observerVars, batchVars, dirVars, args, fileVars, guiVars>>
           ELSE IF text = <<>>
           THEN UNCHANGED vars
           ELSE /\ _request_count < MaxPrompts
                /\ Detect(Str(text), answers, feat)

\* --interactive: input() raises EOFError, which ends main
CliEof ==
    /\ Calls("interactive")
    /\ cli' = Exited(cli, 1)
    /\ UNCHANGED <<sanitizeVars, settingsVars, now, detectorVars, callVars, observerVars,
                   batchVars, dirVars, args, fileVars, guiVars>>

\* main after its handler came back: the results are printed, or the
\* exception is logged and sys.exit(1) called
CliExit ==
    /\ \/ Calls("detect") /\ ret # NoCall
             /\ cli' = Exited(cli, IF ret.kind = "return" THEN 0 ELSE 1)
       \/ Calls("batch_detect") /\ bPhase \in {"returned", "raised"}
             /\ cli' = Exited(cli, IF bPhase = "returned" THEN 0 ELSE 1)
       \/ Calls("process_directory") /\ dPhase \in {"done", "failed"}
             /\ cli' = Exited(cli, IF dPhase = "done" THEN 0 ELSE 1)
    /\ UNCHANGED <<sanitizeVars, settingsVars, now, detectorVars, callVars, observerVars,
                   batchVars, dirVars, args, fileVars, guiVars>>

\* n blanks
Pad(n) == [i \in 1..n |-> " "]

\* a text one byte larger than max_file_size allows
BigText == Pad(ConfiguredMaxFileSize - 1) \o W_hi

ExistingFile(name, body) == [name |-> name, exists |-> TRUE, body |-> body]

CliTexts == { <<>>, W_hi, W_eval \o W_paren }

CliFiles ==
    { MissingFile(<<>>), MissingFile(N_a),
      ExistingFile(N_a, Readable(W_hi)),
      ExistingFile(N_c, Readable(W_hi)),
      ExistingFile(N_a, Readable(BigText)),
      ExistingFile(N_a, Unreadable("UnicodeDecodeError")) }

CliDirPaths == { <<>>, <<"d">> }

CliDirectories == { d \in Directories : Len(d.entries) <= 1 }

CliBatches == { <<>>, << <<>> >>, << W_hi, <<>> >> }

CliLines == { <<" ", "E", "x", "i", "t">>, <<" ", " ">>, W_hi \o <<" ">> }

\* the command lines: each option left out or given with a value
CommandLines ==
    { a \in [text : {NotGiven} \cup { Given(t) : t \in CliTexts },
             file : {NotGiven} \cup { Given(f.name) : f \in CliFiles },
             dir : {NotGiven} \cup { Given(p) : p \in CliDirPaths },
             batch : {NotGiven} \cup { Given(b) : b \in CliBatches },
             interactive : BOOLEAN,
             format : {"text", "json"}] :
        Cardinality(GivenOptions(a)) <= 2 }

InitCli ==
    /\ args \in CommandLines
    /\ cli = NotStarted
    /\ fFile \in CliFiles
    /\ IF args.file.given THEN fFile.name = args.file.v ELSE fFile = MissingFile(<<>>)
    /\ fOut = NotAnalysed
    /\ IdleGui
    /\ dMode = "cli"
    /\ dDir \in CliDirectories
    /\ (~args.dir.given \/ args.dir.v = <<>>) => dDir = NoDirectory
    /\ dFiles = <<>>
    /\ dResults = <<>>
    /\ dPhase = "idle"
    /\ now = StartTime
    /\ NoDetector
    /\ InitCall
    /\ InitObservers
    /\ IdleSanitize
    /\ IdleSettings
    /\ IdleBatch

NextCli ==
    \/ \E loads \in BOOLEAN : Main(loads)
    \/ \E answers \in BatchAnswers, feat \in RateFeatures : CliDetect(answers, feat)
    \/ ProcessFileUnreadable
    \/ \E answers \in BatchAnswers, feat \in RateFeatures : ProcessFileDetect(answers, feat)
    \/ CliDirStart
    \/ CliDirStepUnreadable
    \/ \E answers \in BatchAnswers, feat \in RateFeatures : CliDirStepDetect(answers, feat)
    \/ CliDirFinish
    \/ CliBatchStart
    \/ \E answers \in BatchAnswers, feat \in RateFeatures : CliBatchStep(answers, feat)
    \/ CliBatchReturn
    \/ \E line \in CliLines, answers \in BatchAnswers, feat \in RateFeatures :
          CliPrompt(line, answers, feat)
    \/ CliEof
    \/ CliExit

SpecCli == InitCli /\ [][NextCli]_vars

----------------------------------------------------------------------------
(* _sanitize_input applied to every text *)

InitSanitize ==
    /\ sText \in Texts
    /\ sOut = NotCalled
    /\ IdleSettings
    /\ IdleFront
    /\ now = StartTime
    /\ InitDetector
    /\ InitCall
    /\ InitObservers
    /\ IdleBatch
    /\ IdleDir

Sanitize ==
    /\ sOut = NotCalled
    /\ sOut' = _sanitize_input(sText)
    /\ UNCHANGED <<sText, settingsVars, frontVars, now, detectorVars, callVars, observerVars, batchVars, dirVars>>

NextSanitize == Sanitize

SpecSanitize == InitSanitize /\ [][NextSanitize]_vars

----------------------------------------------------------------------------
(* Vocabulary of the properties of the sanitizer *)

\* the characters of the model's alphabet whose code point is below 32
Below32 == {"\t", "\n"}

WithoutBelow32(t) == SelectSeq(t, LAMBDA ch : ch \notin Below32)

\* word w (written in lower case) stands in t at position i, up to case
HasAt(t, i, w) ==
    /\ i >= 1
    /\ i + Len(w) - 1 <= Len(t)
    /\ \A k \in 1..Len(w) :
          \/ t[i + k - 1] = w[k]
          \/ \E n \in 1..26 : w[k] = LowerLetters[n] /\ t[i + k - 1] = UpperLetters[n]

\* t[a..b] is whitespace only (empty when b < a)
Blank(t, a, b) == \A k \in a..b : t[k] \in {" ", "\t", "\n"}

\* w1, then whitespace (at least minGap characters of it), then w2
Spaced(t, w1, minGap, w2) ==
    \E i \in 1..Len(t) :
        /\ HasAt(t, i, w1)
        /\ \E j \in (i + Len(w1) + minGap)..Len(t) :
              /\ Blank(t, i + Len(w1), j - 1)
              /\ HasAt(t, j, w2)

\* t contains a match of one of the eight denylisted patterns
Denylisted(t) ==
    \/ \E i \in 1..Len(t) :
          /\ HasAt(t, i, W_script_open)
          /\ \E j \in (i + Len(W_script_open))..Len(t) :
                /\ t[j] = ">"
                /\ \E k \in (j + 1)..Len(t) :
                      /\ HasAt(t, k, W_script_close)
                      /\ \A m \in i..k : t[m] # "\n"
    \/ \E i \in 1..Len(t) : HasAt(t, i, W_javascript)
    \/ \E i \in 1..Len(t) : HasAt(t, i, W_data_html)
    \/ Spaced(t, W_eval, 0, W_paren)
    \/ Spaced(t, W_exec, 0, W_paren)
    \/ \E i \in 1..Len(t) :
          /\ HasAt(t, i, W_from)
          /\ \E j \in (i + Len(W_from) + 1)..Len(t) :
                /\ Blank(t, i + Len(W_from), j - 1)
                /\ HasAt(t, j, W_os)
                /\ \E k \in (j + Len(W_os) + 1)..Len(t) :
                      /\ Blank(t, j + Len(W_os), k - 1)
                      /\ HasAt(t, k, W_import)
    \/ Spaced(t, W_import, 1, W_os)
    \/ Spaced(t, W_dunder_import, 0, W_paren)

HtmlEntities == {E_amp, E_lt, E_gt, E_quot, E_apos}

\* no control character, no raw markup character, every & opening an entity
CleanOutput(o) ==
    /\ \A i \in 1..Len(o) : o[i] \notin Below32 \cup {"<", ">", "\"", "'"}
    /\ \A i \in 1..Len(o) :
          o[i] = "&" =>
              \E e \in HtmlEntities :
                  /\ i + Len(e) - 1 <= Len(o)
                  /\ SubSeq(o, i, i + Len(e) - 1) = e

----------------------------------------------------------------------------
(* Properties *)

Blank_(x) == x.isStr /\ \A i \in 1..Len(x.s) : x.s[i] \in {" ", "\t", "\n"}

\* C1: a detect call that returns gives a label that is "AI" or "Human" and
\* a confidence between 0 and 1, whatever the model scores in [0,1] and the
\* feature values.
C1_ResultInRange ==
    ret.kind = "return" =>
        /\ ret.label \in {"AI", "Human"}
        /\ 0 <= ret.conf
        /\ ret.conf <= ConfDen

\* both models sure, token_probability above 0.5: 1.2 capped at 1
C1_Witness ==
    /\ ret.kind = "return"
    /\ \A i \in 1..2 : answered.answers[i].score = ScoreDen
    /\ answered.feat.tp > TokenProbThreshold
    /\ answered.feat.rd <= ReadabilityThreshold
    /\ ret.conf = ConfDen
    /\ ret.label = "AI"

\* C2: in a window (begun by the detect call that finds more than 60 s gone
\* since the window start, as the first call of a detector does) calls 1 to
\* 100 pass the rate check, call 101 and every later one raises
\* SecurityError("Rate limit exceeded") before any model runs, and the call
\* that opens a window restarts the counter and passes.
C2_FixedWindow ==
    ret # NoCall =>
        /\ winCalls <= DefaultRateLimit => ~RateLimited(ret)
        /\ winCalls > DefaultRateLimit =>
              /\ ret.kind = "SecurityError"
              /\ ret.msg = <<M_rate>>
              /\ ret.models = 0
              /\ ~ret.features
        /\ _request_count = winCalls
        /\ _last_request_time = winStart

\* the 101st call of the second window, made exactly 60 s after its start
C2_Witness ==
    /\ winStart > StartTime
    /\ now = winStart + Window
    /\ winCalls = DefaultRateLimit + 1
    /\ RateLimited(ret)

\* C3 as claimed: in every interval of 60 seconds at most 100 calls pass the
\* rate check.
C3_SlidingMinute == probePassed <= DefaultRateLimit

\* C3 as amended: an interval of 60 seconds meets at most two windows, and
\* never the first call of the earlier one together with a call of the
\* later one, so at most 199 calls pass within it.
C3_TwoWindows == probePassed <= 2 * DefaultRateLimit - 1

C3_Witness ==
    /\ probePassed = 2 * DefaultRateLimit - 1
    /\ now <= probeStart + Window

\* C4 as claimed: within the rate limit, detect raises ValueError for an
\* argument that is no string, or is empty or blank.
C4_ValueError ==
    (ret # NoCall /\ winCalls <= _rate_limit /\ (~arg.isStr \/ Blank_(arg)))
        => ret.kind = "ValueError"

\* C5 as claimed: rate limit exceeded, text longer than max_text_length, or
\* text matching a denylisted pattern: SecurityError, unchanged, and no
\* model and no feature analysis invoked.
C5_PolicyViolation ==
    (/\ ret # NoCall
     /\ \/ winCalls > _rate_limit
        \/ arg.isStr /\ Len(arg.s) > max_text_length
        \/ arg.isStr /\ Denylisted(arg.s))
        => /\ ret.kind = "SecurityError"
           /\ ret.msg \in {<<M_rate>>, <<M_too_long>>, <<M_suspicious>>}
           /\ ret.models = 0
           /\ ~ret.features

\* C5 as amended: rate limit exceeded, or a string that is not blank and is
\* longer than max_text_length, or is within the length and matches a
\* denylisted pattern once its characters below code point 32 are removed.
C5_PolicyViolationNonBlank ==
    (/\ ret # NoCall
     /\ \/ winCalls > _rate_limit
        \/ /\ arg.isStr
           /\ ~Blank_(arg)
           /\ \/ Len(arg.s) > max_text_length
              \/ Denylisted(WithoutBelow32(arg.s)))
        => /\ ret.kind = "SecurityError"
           /\ ret.msg \in {<<M_rate>>, <<M_too_long>>, <<M_suspicious>>}
           /\ ret.models = 0
           /\ ~ret.features

\* "eval(" within the rate limit
C5_Witness ==
    /\ winCalls <= _rate_limit
    /\ arg = Str(W_eval \o W_paren)
    /\ ret.kind = "SecurityError"
    /\ ret.msg = <<M_suspicious>>
    /\ ret.models = 0

\* a batch entry for text x: success with prediction and confidence and no
\* error, or error with a message and no prediction
BatchEntryFor(e, x) ==
    /\ e.text = x.s
    /\ \/ /\ DOMAIN e = {"text", "prediction", "confidence", "status"}
          /\ e.status = "success"
          /\ e.prediction \in {"AI", "Human"}
       \/ /\ DOMAIN e = {"text", "error", "status"}
          /\ e.status = "error"

\* C7: batch_detect returns one entry per text, in order, each a success
\* with prediction and confidence or an error with its message; no
\* exception of detect (a rate-limit rejection included) leaves
\* batch_detect or keeps the later texts from being processed.
C7_BatchContinues ==
    /\ bPhase # "raised"
    /\ Len(bResults) <= Len(bTexts)
    /\ \A i \in 1..Len(bResults) : BatchEntryFor(bResults[i], bTexts[i])
    /\ bPhase = "returned" => Len(bResults) = Len(bTexts)
    /\ (bPhase = "running" /\ bResults # <<>>) =>
          LET e == bResults[Len(bResults)] IN
             /\ arg = bTexts[Len(bResults)]
             /\ (e.status = "success") <=> (ret.kind = "return")
             /\ e.status = "success" =>
                   e.prediction = ret.label /\ e.confidence = ret.conf
             /\ e.status = "error" => e.error = ret.msg

\* the 100th call of the window succeeds, the next two are rejected by the
\* rate limit, and all three are in the returned list
C7_Witness ==
    /\ bPhase = "returned"
    /\ Len(bTexts) = 3
    /\ bResults[1].status = "success"
    /\ bResults[2].status = "error"
    /\ bResults[2].error = <<M_rate>>
    /\ bResults[3].status = "error"
    /\ bResults[3].error = <<M_rate>>

\* the name ends in ".txt"
IsTxtName(n) ==
    /\ Len(n) >= 4
    /\ n[Len(n) - 3] = "."
    /\ n[Len(n) - 2] = "t"
    /\ n[Len(n) - 1] = "x"
    /\ n[Len(n)] = "t"

\* the positions of the directory's .txt files, in listing order
TxtPositions == { i \in 1..Len(dDir.entries) : IsTxtName(dDir.entries[i].name) }

\* the k-th .txt file of the directory
TxtFile(k) ==
    dDir.entries[CHOOSE i \in TxtPositions :
                    Cardinality({j \in TxtPositions : j <= i}) = k]

\* C8: a directory run (command line or batch tab) makes one result entry
\* per .txt file of the directory, in order, each a prediction with
\* confidence or an error for that file; a file that cannot be read or that
\* detect rejects gets its own error entry and the run goes on to the end.
C8_DirectoryContinues ==
    /\ dPhase = "failed" => ~dDir.isDir
    /\ dPhase \in {"running", "done"} =>
          /\ Len(dResults) <= Cardinality(TxtPositions)
          /\ \A k \in 1..Len(dResults) :
                LET e == dResults[k]
                    f == TxtFile(k)
                IN  /\ e.file = f.name
                    /\ \/ DOMAIN e = {"file", "prediction", "confidence"}
                       \/ "error" \in DOMAIN e /\ "prediction" \notin DOMAIN e
                    /\ f.body.raises # "" => "error" \in DOMAIN e
    /\ dPhase = "done" => Len(dResults) = Cardinality(TxtPositions)
    /\ (dPhase = "running" /\ dResults # <<>>) =>
          LET e == dResults[Len(dResults)]
              f == TxtFile(Len(dResults))
          IN  f.body.raises = "" =>
                 /\ arg = Str(f.body.text)
                 /\ ("prediction" \in DOMAIN e) <=> (ret.kind = "return")
                 /\ "error" \in DOMAIN e => e.error = ret.msg

\* the batch tab on two .txt files: the first cannot be decoded, the second
\* is then classified
C8_Witness ==
    /\ dPhase = "done"
    /\ dMode = "gui"
    /\ Len(dResults) = 2
    /\ dDir.entries[1].body.raises # ""
    /\ "error" \in DOMAIN dResults[1]
    /\ "prediction" \in DOMAIN dResults[2]

\* C6: _sanitize_input either raises SecurityError or returns a string; it
\* raises exactly when the text, once every character below code point 32
\* is removed, contains a match of a denylisted pattern (up to case); a
\* returned string holds no character below 32, no raw <, >, " or ', and
\* every & in it starts an HTML entity.
C6_SanitizeContract ==
    sOut # NotCalled =>
        /\ sOut.kind \in {"SecurityError", "return"}
        /\ (sOut.kind = "SecurityError") <=> Denylisted(WithoutBelow32(sText))
        /\ sOut.kind = "return" => CleanOutput(sOut.val)

\* a text with a tab inside "import os" and markup characters was accepted
\* and came back escaped
C6_Witness ==
    /\ sText = W_import \o <<"\t">> \o W_os \o <<"\t">> \o W_special
    /\ sOut.kind = "return"
    /\ sOut.val = W_import \o W_os \o E_amp \o E_quot \o E_apos

\* C9: after Config is constructed on a config file that is a JSON object,
\* get resolves every key path of the default settings to the file's value
\* where the file gives one and to the default value elsewhere
C9_MergeFillsDefaults ==
    (config # 0 /\ file.state = "json" /\ file.tree.k = "dict") =>
        \A p \in DefaultPaths :
            get(heap, config, p) =
                IF TreeHas(file.tree, p)
                THEN TreeGet(file.tree, p)
                ELSE TreeGet(DefaultTree, p)

\* the configuration a Config built on the stored file would hold passes
\* validate_config
StoredValid ==
    file.state = "json" =>
        LET r == _load_config(DefaultHeap, file)
        IN  validate_config(r.heap, r.config) = "True"

\* C10: once the window has started on a configuration that passes
\* validate_config, the configuration in memory and the one stored in
\* config.json pass validate_config after every Save and every Reset to
\* Defaults
C10_ValidateInvariant ==
    (gui = "running" /\ validAtStart) =>
        /\ validate_config(heap, config) = "True"
        /\ StoredValid

\* the handler main has for the one option given, and the value given
HandlerOf(a) ==
    IF a.text.given THEN [ran |-> "detect", arg |-> a.text.v]
    ELSE IF a.file.given THEN [ran |-> "process_file", arg |-> a.file.v]
    ELSE IF a.dir.given THEN [ran |-> "process_directory", arg |-> a.dir.v]
    ELSE IF a.batch.given THEN [ran |-> "batch_detect", arg |-> a.batch.v]
    ELSE [ran |-> "interactive", arg |-> <<>>]

\* C11: a command line that does not give exactly one of the five options
\* is refused and no handler runs; for every accepted one, once the detector
\* is built, main has called the handler of the option given, on the value
\* given
C11_MainRunsHandler ==
    /\ (cli.phase # "start" /\ ParseError(args)) =>
           (cli.ran = "none" /\ cli.status = 2)
    /\ (cli.phase # "start" /\ ~ParseError(args) /\ max_text_length # 0) =>
           (cli.ran = HandlerOf(args).ran /\ cli.arg = HandlerOf(args).arg)



\* the size in bytes of a file of the model, whose characters are ASCII
FileSize(f) == Len(f.body.text)

\* C12: a file larger than max_file_size bytes that process_file was called
\* on is rejected with a SecurityError without detect being called on its
\* content
C12_FileSizeEnforced ==
    (fOut.phase = "done" /\ fFile.exists /\ FileSize(fFile) > max_file_size) =>
        (fOut.out.kind = "SecurityError" /\ ~fOut.detected)

\* C13: a file whose name does not end in .txt is never passed to detect by
\* process_file
C13_OnlyTxtFiles ==
    (fOut.phase = "done" /\ fFile.exists /\ ~EndsWith(Lower(fFile.name), DotTxt)) =>
        ~fOut.detected


\* C14: once on_save has built the detector from a saved rate limit R > 0,
\* the calls up to the R-th of a window are not rejected for the rate and
\* the call after them is rejected with "Rate limit exceeded"
C14_SavedRateLimitEnforced ==
    (gui = "running" /\ style # NoStyle /\ ret # NoCall) =>
        LET R == get(heap, config, <<"security", "rate_limit">>)
        IN  (R.k = "int" /\ R.n > 0) => (RateLimited(ret) <=> _request_count > R.n)


\* every thread _analyze_text started has run to its end
AllEnded == workers # <<>> /\ \A i \in 1..Len(workers) : workers[i].at = "ended"

C15_DefaultsKept ==
    gui = "running" => Dump(heap, Ref(DefaultRoot)) = DefaultTree


\* the confidence the claim describes, in hundredths of the mean: the mean
\* of the two scores, times 1.2 and times 0.8 where the features say so
AdjustPercent(feat) ==
    (IF feat.tp > TokenProbThreshold THEN 12 ELSE 10)
        * (IF feat.rd > ReadabilityThreshold THEN 8 ELSE 10)

\* C17: the confidence returned is the mean of the two model scores, times
\* 1.2 if token_probability > 0.5, times 0.8 if readability > 80 (both where
\* both hold), clamped to [0, 1]; the labels have no part in it
C17_ConfidenceFormula ==
    ret.kind = "return" =>
        LET scores == answered.answers[1].score + answered.answers[2].score
            mean == (scores * ConfDen) \div (2 * ScoreDen)
        IN  ret.conf = Min(Max((mean * AdjustPercent(answered.feat)) \div 100, 0), ConfDen)

\* both adjustments apply to a mean the clamp leaves alone, and the models
\* disagree on the label
C17_Witness ==
    /\ ret.kind = "return"
    /\ answered.feat.tp > TokenProbThreshold
    /\ answered.feat.rd > ReadabilityThreshold
    /\ answered.answers[1].label # answered.answers[2].label
    /\ answered.answers[1].score = ScoreDen
    /\ answered.answers[2].score = 1
    /\ ret.conf = ((((1 + ScoreDen) * ConfDen) \div (2 * ScoreDen)) * 96) \div 100
    /\ ret.conf < ConfDen

\* C18: the label returned is "AI" exactly when both models answered
\* LABEL_1, and "Human" otherwise, a 1-1 split included
C18_MajorityLabel ==
    ret.kind = "return" =>
        /\ ret.label \in {"AI", "Human"}
        /\ ret.label = "AI" <=> (\A i \in 1..2 : answered.answers[i].label = "LABEL_1")

\* a 1-1 split, the model saying LABEL_1 being sure of it
C18_Witness ==
    /\ ret.kind = "return"
    /\ answered.answers[1].label = "LABEL_1"
    /\ answered.answers[1].score = ScoreDen
    /\ answered.answers[2].label = "LABEL_0"
    /\ ret.label = "Human"


\* C19: a step in which the clock stands still is a call of detect, and it
\* leaves the counter one above what the window reset made of it, whatever
\* the argument and whatever the call came to; the counter goes down in no
\* other way than by that reset, and the clock moving on leaves it alone
C19_EveryCallCounts ==
    [][ /\ now' = now =>
               _request_count' =
                   (IF now - _last_request_time > Window THEN 0 ELSE _request_count) + 1
        /\ _request_count' < _request_count =>
               (now' = now /\ now - _last_request_time > Window /\ _request_count' = 1)
        /\ now' # now => _request_count' = _request_count ]_vars

\* the call that uses up the limit is one rejected for its argument
C19_Witness ==
    /\ ~arg.isStr
    /\ ret.kind \notin {"return", "none"}
    /\ ~RateLimited(ret)
    /\ _request_count = _rate_limit


\* the proper prefixes of the key are absent or hold dicts
PrefixesFree(h, c, key) ==
    \A i \in 1..(Len(key) - 1) :
        LET v == get(h, c, SubSeq(key, 1, i)) IN v = NoneV \/ v.k = "ref"

IsPrefix(p, q) == Len(p) <= Len(q) /\ SubSeq(q, 1, Len(p)) = p

\* the key paths looked up around a set: the settings, the keys set, and
\* the prefixes of either
ProbePaths ==
    UNION { { SubSeq(p, 1, i) : i \in 1..Len(p) } : p \in DefaultPaths \cup SetKeys }

\* C20: after set(k, v) on a key whose proper prefixes are absent or hold
\* dicts, nothing was raised, get(k) is v, every proper prefix of k holds a
\* dict, and get of a key path that is neither a prefix nor an extension of
\* k is what it was before
C20_SetUpdatesExactly ==
    (setCall.n > 0 /\ PrefixesFree(setCall.before, config, setCall.key)) =>
        /\ setCall.raised = "none"
        /\ get(heap, config, setCall.key) = setCall.value
        /\ \A i \in 1..(Len(setCall.key) - 1) :
               get(heap, config, SubSeq(setCall.key, 1, i)).k = "ref"
        /\ \A p \in ProbePaths :
               (~IsPrefix(p, setCall.key) /\ ~IsPrefix(setCall.key, p)) =>
                   get(heap, config, p) = get(setCall.before, config, p)

\* a set that had two dicts to create, in a configuration with other
\* settings to keep
C20_Witness ==
    /\ setCall.n > 0
    /\ setCall.key = <<"extra", "deep", "x">>
    /\ get(setCall.before, config, <<"extra">>) = NoneV
    /\ get(heap, config, setCall.key) = IntV(7)
    /\ get(heap, config, <<"security", "rate_limit">>) = IntV(50)


\* config.json gives no JSON object: it is missing, cannot be opened, is no
\* JSON, or is JSON of another type
NoObjectInFile ==
    \/ file.state \in {"absent", "unreadable", "garbage"}
    \/ file.state = "json" /\ file.tree.k # "dict"

\* C21: Config() constructed on a file that gives no JSON object comes to a
\* configuration, and that configuration equals the defaults
C21_LoadFallsBackToDefaults ==
    (heap # <<>> /\ NoObjectInFile) =>
        /\ config # 0
        /\ Dump(heap, Ref(config)) = DefaultTree
        /\ \A p \in DefaultPaths : get(heap, config, p) = TreeGet(DefaultTree, p)

\* Config() was constructed on a file holding a JSON list
C21_Witness ==
    /\ heap # <<>>
    /\ file = FileJson(ListV(1, DotTxt))
    /\ config = DefaultRoot
    /\ get(heap, config, <<"security", "rate_limit">>) = IntV(100)


\* C22: once every thread that called detect is past _check_rate_limit, the
\* counter equals the number of calls started in the window, and at no time
\* have more calls than the limit passed the check in the window
C22_ConcurrentRateLimit ==
    /\ (\A i \in 1..Len(workers) : workers[i].at \in PastCheck) => _request_count = winCalls
    /\ probePassed <= _rate_limit

====
